---- MODULE Spec2Model ----
(***************************************************************************)
(* Model of the pairing/session token authority (AuthService), the         *)
(* realtime hub built on it (WebSocketService), the HTTP handlers of the   *)
(* server that call them, and the rate limiter (RateLimiter).              *)
(*                                                                         *)
(* The token authority counts time in minutes, the rate limiter in half    *)
(* seconds, each on its own clock.  Node runs every handler to completion on *)
(* one thread: a synchronous method is one atomic step, and steps of       *)
(* different requests interleave only between handlers.                    *)
(***************************************************************************)
EXTENDS Integers, Sequences, FiniteSets, TLC

\* ---------------------------------------------------------------- bounds
MaxUuid == 2        \* uuidv4() values the run may draw
MaxTicks == 2       \* steps the clock may take
MaxRequests == 2    \* POST /api/auth/session requests of a run
MaxSockets == 2     \* realtime connection attempts of a run
MaxEmits == 2       \* broadcasts of a run
MaxPairingUuid == 4 \* uuidv4() values a run of pairings may draw
MaxCalls == 4       \* calls of the rate limiter in a run
MaxLimiterTime == 3 \* the latest time of the rate limiter's clock
maxRequests == 2    \* new RateLimiter(maxRequests, ...)
WindowSeconds == 1  \* new RateLimiter(..., WindowSeconds * 1000)
MaxSignals == 2     \* shutdown signals the process may handle
MaxPeers == 1       \* HTTP connections that may be open at once
MaxRetries == 2     \* the largest maxRetries passed to withRetry
MaxClientSockets == 3 \* sockets the realtime client may create in a run
reconnectionAttempts == 2 \* options.reconnectionAttempts of useWebSocket
MaxTasks == 4       \* tasks added to the upload queue in a run
MaxGatedUuid == 6   \* uuidv4() values a run of rate-limited requests may draw
MaxRejected == 1    \* requests a client makes to a limiter beyond its limit
MaxAdmitted == 1    \* connections a run follows past the life of their tokens
MaxMintTicks == 1   \* steps of the clock in a run of every method

\* ------------------------------------------------------ program constants
QrTtl == 5          \* 5 * 60 * 1000 ms
SessionTtl == 60    \* 60 * 60 * 1000 ms

\* ------------------------------------------------------------ the values
Uuids == 1..MaxUuid
\* A string that is no uuid ('invalid-token'): never a key of the store.
InvalidValue == 0
\* What a caller may present as a token value.
Presentable == Uuids \cup {InvalidValue}
\* A field that is missing, and one that is the empty string.
Undefined == -1
EmptyString == -2
\* !value
Falsy(value) == value \in {Undefined, EmptyString}
\* The clock advances by a minute, a QR lifetime or a session lifetime.
TickSteps == {1, QrTtl, SessionTtl}

\* The return value null.
Null == [sessionToken |-> 0, expiresAt |-> 0]

VARIABLES
    now,        \* Date.now(), in minutes
    ticks,      \* steps the clock has taken
    tokens,     \* AuthService.tokens: Map<string, Token>, keyed by value
    nextUuid,   \* the next value uuidv4() returns (values are never repeated)
    cleanupInterval, \* TRUE while the setInterval of the constructor is armed
    issued,     \* history: every token ever created, as it was created
    last        \* the latest AuthService call: its name, argument and outcome

VARIABLES
    requests,   \* POST /api/auth/session: each request, in flight or answered
    sockets,    \* every realtime connection attempt made, by socket id
    emitted,    \* history: for each broadcast issued, in order, the
                \* sockets that were connected when it was issued
    wire,       \* per socket: broadcasts written to the connection and not
                \* yet received by the client
    inbox       \* per socket: broadcasts the client has received, in order

VARIABLES
    rlNow,      \* Date.now() as the rate limiter reads it, in half seconds
    limiterRequests, \* RateLimiter.requests: Map<string, RateLimitEntry>
    rlLog,      \* history: the calls of the limiter, in order
    rlLast      \* the latest call of the limiter: request and response

VARIABLES
    process,    \* the Node process: its shutdown() calls and its exit
    ngrokProcess, \* NgrokManager.ngrokProcess: TRUE while it is not null
    connections \* HTTP connections open to the server

VARIABLES
    call        \* one request to a route of images, articles or
                \* configuration: what it presented, and its response

VARIABLES
    retry       \* one call of RetryHandler.withRetry: its arguments, its
                \* loop variable, and what it has done so far

VARIABLES
    articleList, \* let articleList of createServer
    articlePost, \* the latest POST /api/articles: its body and its response
    client,      \* one useWebSocket hook: its state and refs, the sockets it
                 \* has created and its timers
    uploadQueue, \* the UploadQueue of the client, and its uploads in flight
    rlPlain,     \* a RateLimiter whose timer never runs, given the requests
                 \* of the first: its table and its latest response
    gates        \* imageUploadLimiter and qrCodeLimiter of createServer: their
                 \* tables, and the requests that went through them

authVars == <<now, ticks, tokens, nextUuid, cleanupInterval, issued, last>>

hubVars == <<sockets, emitted, wire, inbox>>

rlVars == <<rlNow, limiterRequests, rlLog, rlLast>>

sdVars == <<process, ngrokProcess, connections>>

\* What the specifications of the shutdown, of withRetry and of the routes
\* leave alone.
tailVars == <<articleList, articlePost, client, uploadQueue, rlPlain, gates>>

\* What the specifications written before the shutdown leave alone.
restVars == <<sdVars, retry, call, tailVars>>

vars == <<now, ticks, tokens, nextUuid, cleanupInterval, issued, last, requests,
          sockets, emitted, wire, inbox, rlNow, limiterRequests, rlLog, rlLast,
          process, ngrokProcess, connections, retry, call, articleList,
          articlePost, client, uploadQueue, rlPlain, gates>>

\* ------------------------------------------------------------ AuthService

\* Map.set(key, value)
MapSet(store, key, value) ==
    [k \in DOMAIN store \cup {key} |-> IF k = key THEN value ELSE store[k]]

\* Map.delete(key)
MapDelete(store, key) ==
    [k \in DOMAIN store \ {key} |-> store[k]]

\* token.expiresAt < new Date()
Expired(token, clock) == token.expiresAt < clock

\* As cleanupExpiredTokens, sweeping the expired QR tokens only.
cleanupExpiredTokens_qrOnly(store, clock) ==
    [k \in {j \in DOMAIN store :
                ~(Expired(store[j], clock) /\ store[j].type = "qr")} |-> store[k]]

\* private cleanupExpiredTokens(): delete every token whose expiresAt < now
cleanupExpiredTokens(store, clock) ==
    [k \in {j \in DOMAIN store : ~Expired(store[j], clock)} |-> store[k]]

\* As generateQRToken, storing the token with the type of a session.
generateQRToken_asSession(store, uuid, clock) ==
    cleanupExpiredTokens(
        MapSet(store, uuid,
               [type |-> "session", expiresAt |-> clock + QrTtl,
                createdAt |-> clock]),
        clock)

\* generateQRToken(): the store after the call; uuid is the value returned
generateQRToken(store, uuid, clock) ==
    cleanupExpiredTokens(
        MapSet(store, uuid,
               [type |-> "qr", expiresAt |-> clock + QrTtl, createdAt |-> clock]),
        clock)

\* As validateQRTokenAndIssueSession, without line 92: the QR token is kept.
validateQRTokenAndIssueSession_keepsToken(store, qrToken, uuid, clock) ==
    IF qrToken \notin DOMAIN store \/ store[qrToken].type # "qr"
    THEN [store |-> store, result |-> Null]
    ELSE IF Expired(store[qrToken], clock)
    THEN [store |-> MapDelete(store, qrToken), result |-> Null]
    ELSE [store |-> MapSet(store, uuid,
                           [type |-> "session",
                            expiresAt |-> clock + SessionTtl,
                            createdAt |-> clock]),
          result |-> [sessionToken |-> uuid, expiresAt |-> clock + SessionTtl]]

\* As validateQRTokenAndIssueSession, without line 87: an expired QR token is
\* refused and kept.
validateQRTokenAndIssueSession_keepsExpired(store, qrToken, uuid, clock) ==
    IF qrToken \notin DOMAIN store \/ store[qrToken].type # "qr"
    THEN [store |-> store, result |-> Null]
    ELSE IF Expired(store[qrToken], clock)
    THEN [store |-> store, result |-> Null]
    ELSE [store |-> MapSet(MapDelete(store, qrToken), uuid,
                           [type |-> "session",
                            expiresAt |-> clock + SessionTtl,
                            createdAt |-> clock]),
          result |-> [sessionToken |-> uuid, expiresAt |-> clock + SessionTtl]]

\* validateQRTokenAndIssueSession(qrToken): the store after the call and the
\* value returned (Null, or the session minted with value uuid)
validateQRTokenAndIssueSession(store, qrToken, uuid, clock) ==
    IF qrToken \notin DOMAIN store \/ store[qrToken].type # "qr"
    THEN [store |-> store, result |-> Null]
    ELSE IF Expired(store[qrToken], clock)
    THEN [store |-> MapDelete(store, qrToken), result |-> Null]
    ELSE [store |-> MapSet(MapDelete(store, qrToken), uuid,
                           [type |-> "session",
                            expiresAt |-> clock + SessionTtl,
                            createdAt |-> clock]),
          result |-> [sessionToken |-> uuid, expiresAt |-> clock + SessionTtl]]

\* As validateSessionToken, without the expiry test of lines 118-121.
validateSessionToken_noExpiry(store, sessionToken, clock) ==
    IF sessionToken \notin DOMAIN store \/ store[sessionToken].type # "session"
    THEN [store |-> store, result |-> FALSE]
    ELSE [store |-> store, result |-> TRUE]

\* validateSessionToken(sessionToken): the store after the call and the
\* boolean returned
validateSessionToken(store, sessionToken, clock) ==
    IF sessionToken \notin DOMAIN store \/ store[sessionToken].type # "session"
    THEN [store |-> store, result |-> FALSE]
    ELSE IF Expired(store[sessionToken], clock)
    THEN [store |-> MapDelete(store, sessionToken), result |-> FALSE]
    ELSE [store |-> store, result |-> TRUE]

\* As invalidateAllTokens, clearing the QR tokens only.
invalidateAllTokens_keepsSessions(store) ==
    [k \in {j \in DOMAIN store : store[j].type = "session"} |-> store[k]]

\* invalidateAllTokens(): this.tokens.clear()
invalidateAllTokens(store) == [k \in {} |-> store[k]]

\* As extendSessionToken, were it implemented: the session gets a further hour.
extendSessionToken_extends(store, sessionToken) ==
    IF sessionToken \in DOMAIN store /\ store[sessionToken].type = "session"
    THEN MapSet(store, sessionToken,
                [store[sessionToken] EXCEPT !.expiresAt = @ + SessionTtl])
    ELSE store

\* extendSessionToken(sessionToken): intentionally does nothing
extendSessionToken(store, sessionToken) == store

\* invalidateQRToken(qrToken): this.tokens.delete(qrToken)
invalidateQRToken(store, qrToken) == MapDelete(store, qrToken)

\* As regenerateQRCode, with the loop deleting every token, whatever its
\* type.
regenerateQRCode_deletesAll(store, uuid, clock) ==
    generateQRToken([k \in {} |-> store[k]], uuid, clock)

\* regenerateQRCode() and regenerateQRCodeAsync() up to their first await:
\* delete every token of type qr, then generateQRToken()
regenerateQRCode(store, uuid, clock) ==
    generateQRToken(
        [k \in {j \in DOMAIN store : store[j].type # "qr"} |-> store[k]],
        uuid, clock)

\* ---------------------------------------------------------------- actions

EmptyMap == [k \in {} |-> 0]

\* The record of a call: op its name, arg the value passed (0 when none), ok
\* whether it returned a session or true, value the session value returned
\* or the number of tokens the call removed.
Call(op, arg, ok, value) == [op |-> op, arg |-> arg, ok |-> ok, value |-> value]

Removed(before, after) == Cardinality(DOMAIN before \ DOMAIN after)

InitAuth ==
    /\ now = 0
    /\ ticks = 0
    /\ tokens = EmptyMap
    /\ nextUuid = 1
    /\ cleanupInterval = TRUE
    /\ issued = EmptyMap
    /\ last = Call("new", 0, FALSE, 0)

\* Time passes: d minutes.
Tick(d) ==
    /\ ticks < MaxTicks
    /\ now' = now + d
    /\ ticks' = ticks + 1
    /\ last' = Call("tick", 0, FALSE, 0)
    /\ UNCHANGED <<tokens, nextUuid, cleanupInterval, issued>>

\* generateQRToken(), while the run has drawn fewer than limit uuids
GenerateQRTokenUpTo(limit) ==
    /\ nextUuid <= limit
    /\ tokens' = generateQRToken(tokens, nextUuid, now)
    /\ nextUuid' = nextUuid + 1
    /\ issued' = MapSet(issued, nextUuid,
                        [type |-> "qr", expiresAt |-> now + QrTtl,
                         createdAt |-> now, from |-> 0,
                         by |-> "generateQRToken"])
    /\ last' = Call("generateQRToken", 0, TRUE, nextUuid)
    /\ UNCHANGED <<now, ticks, cleanupInterval>>

GenerateQRToken == GenerateQRTokenUpTo(MaxUuid)

\* validateQRTokenAndIssueSession(qrToken), while the run has drawn fewer
\* than limit uuids
ValidateQRTokenAndIssueSessionUpTo(qrToken, limit) ==
    LET r == validateQRTokenAndIssueSession(tokens, qrToken, nextUuid, now) IN
    \* a call that mints draws a fresh uuid
    /\ r.result # Null => nextUuid <= limit
    /\ tokens' = r.store
    /\ nextUuid' = IF r.result # Null THEN nextUuid + 1 ELSE nextUuid
    /\ issued' = IF r.result # Null
                 THEN MapSet(issued, r.result.sessionToken,
                             [type |-> "session",
                              expiresAt |-> r.result.expiresAt,
                              createdAt |-> now, from |-> qrToken,
                              by |-> "validateQRTokenAndIssueSession"])
                 ELSE issued
    /\ last' = IF r.result # Null
               THEN Call("validateQRTokenAndIssueSession", qrToken, TRUE,
                         r.result.sessionToken)
               ELSE Call("validateQRTokenAndIssueSession", qrToken, FALSE,
                         Removed(tokens, r.store))
    /\ UNCHANGED <<now, ticks, cleanupInterval>>

ValidateQRTokenAndIssueSession(qrToken) ==
    ValidateQRTokenAndIssueSessionUpTo(qrToken, MaxUuid)

ValidateSessionToken(v) ==
    LET r == validateSessionToken(tokens, v, now) IN
    /\ tokens' = r.store
    /\ last' = Call("validateSessionToken", v, r.result, Removed(tokens, r.store))
    /\ UNCHANGED <<now, ticks, nextUuid, cleanupInterval, issued>>

ExtendSessionToken(v) ==
    /\ tokens' = extendSessionToken(tokens, v)
    /\ last' = Call("extendSessionToken", v, FALSE, 0)
    /\ UNCHANGED <<now, ticks, nextUuid, cleanupInterval, issued>>

InvalidateQRToken(v) ==
    /\ tokens' = invalidateQRToken(tokens, v)
    /\ last' = Call("invalidateQRToken", v, FALSE, Removed(tokens, tokens'))
    /\ UNCHANGED <<now, ticks, nextUuid, cleanupInterval, issued>>

\* regenerateQRCode() and regenerateQRCodeAsync(), while the run has drawn
\* fewer than limit uuids
RegenerateQRCodeUpTo(limit) ==
    /\ nextUuid <= limit
    /\ tokens' = regenerateQRCode(tokens, nextUuid, now)
    /\ nextUuid' = nextUuid + 1
    /\ issued' = MapSet(issued, nextUuid,
                        [type |-> "qr", expiresAt |-> now + QrTtl,
                         createdAt |-> now, from |-> 0,
                         by |-> "regenerateQRCode"])
    /\ last' = Call("regenerateQRCode", 0, TRUE, nextUuid)
    /\ UNCHANGED <<now, ticks, cleanupInterval>>

RegenerateQRCode == RegenerateQRCodeUpTo(MaxUuid)

InvalidateAllTokens ==
    /\ tokens' = invalidateAllTokens(tokens)
    /\ last' = Call("invalidateAllTokens", 0, FALSE, Removed(tokens, tokens'))
    /\ UNCHANGED <<now, ticks, nextUuid, cleanupInterval, issued>>

\* destroy(): clearInterval(this.cleanupInterval), then invalidateAllTokens()
destroy(store) == invalidateAllTokens(store)

Destroy ==
    /\ cleanupInterval' = FALSE
    /\ tokens' = destroy(tokens)
    /\ last' = Call("destroy", 0, FALSE, Removed(tokens, tokens'))
    /\ UNCHANGED <<now, ticks, nextUuid, issued>>

\* The setInterval callback of the constructor.
CleanupTimer ==
    /\ cleanupInterval
    /\ tokens' = cleanupExpiredTokens(tokens, now)
    /\ last' = Call("cleanupExpiredTokens", 0, FALSE, Removed(tokens, tokens'))
    /\ UNCHANGED <<now, ticks, nextUuid, cleanupInterval, issued>>

NextAuth ==
    \/ \E d \in TickSteps : Tick(d)
    \/ GenerateQRToken
    \/ \E qrToken \in Presentable : ValidateQRTokenAndIssueSession(qrToken)
    \/ \E v \in Presentable : ValidateSessionToken(v)
    \/ \E v \in Presentable : ExtendSessionToken(v)
    \/ \E v \in Presentable : InvalidateQRToken(v)
    \/ RegenerateQRCode
    \/ InvalidateAllTokens
    \/ Destroy
    \/ CleanupTimer

\* ------------------------------------------------ POST /api/auth/session

RequestIds == 1..MaxRequests

\* A request that has not been sent.
NoRequest ==
    [state |-> "none", qrToken |-> Undefined, status |-> 0, sessionToken |-> 0,
     overlapped |-> FALSE]

InitHttp == requests = [r \in RequestIds |-> NoRequest]

\* The requests waiting for their handler with the same qrToken as r.
PendingWith(r, qrToken) ==
    {o \in RequestIds \ {r} :
        requests[o].state = "pending" /\ requests[o].qrToken = qrToken}

\* A request reaches the server with req.body.qrToken = qrToken; its handler
\* has not run yet.
ReceiveAuthSession(r, qrToken) ==
    /\ requests[r].state = "none"
    /\ \A o \in RequestIds : o < r => requests[o].state # "none"
    /\ requests' =
        [o \in RequestIds |->
            IF o = r
            THEN [NoRequest EXCEPT !.state = "pending", !.qrToken = qrToken,
                                   !.overlapped = PendingWith(r, qrToken) # {}]
            ELSE IF o \in PendingWith(r, qrToken)
            THEN [requests[o] EXCEPT !.overlapped = TRUE]
            ELSE requests[o]]
    /\ UNCHANGED <<authVars, hubVars>>

\* As AuthSessionResponse, without the test of lines 115-120: every request
\* that carries a qrToken is answered 200.
AuthSessionResponse_ignoresNull(request, result) ==
    IF Falsy(request.qrToken)
    THEN [request EXCEPT !.state = "answered", !.status = 400]
    ELSE [request EXCEPT !.state = "answered", !.status = 200,
                         !.sessionToken = result.sessionToken]

\* The answer of the handler: 400 without a qrToken, 401 when the exchange
\* returned null, 200 with the session otherwise.
AuthSessionResponse(request, result) ==
    IF Falsy(request.qrToken)
    THEN [request EXCEPT !.state = "answered", !.status = 400]
    ELSE IF result = Null
    THEN [request EXCEPT !.state = "answered", !.status = 401]
    ELSE [request EXCEPT !.state = "answered", !.status = 200,
                         !.sessionToken = result.sessionToken]

\* The handler of POST /api/auth/session runs, from its first line to the
\* response.
HandleAuthSession(r) ==
    /\ requests[r].state = "pending"
    /\ IF Falsy(requests[r].qrToken)
       THEN /\ requests' = [requests EXCEPT ![r] = AuthSessionResponse(@, Null)]
            /\ UNCHANGED <<authVars, hubVars>>
       ELSE /\ ValidateQRTokenAndIssueSession(requests[r].qrToken)
            /\ requests' = [requests EXCEPT ![r] =
                    AuthSessionResponse(@,
                        validateQRTokenAndIssueSession(
                            tokens, requests[r].qrToken, nextUuid, now).result)]
            /\ UNCHANGED hubVars

NextHttp ==
    \/ GenerateQRToken /\ UNCHANGED <<requests, hubVars>>
    \/ RegenerateQRCode /\ UNCHANGED <<requests, hubVars>>
    \/ \E r \in RequestIds, qrToken \in Presentable \cup {Undefined, EmptyString} :
            ReceiveAuthSession(r, qrToken)
    \/ \E r \in RequestIds : HandleAuthSession(r)

\* ------------------------------------------------------ WebSocketService

SocketIds == 1..MaxSockets

\* What a client may send as socket.handshake.auth.token.
HandshakeTokens == Presentable \cup {Undefined, EmptyString}

AuthenticationFailed == "Authentication failed: Invalid or expired token"

\* A socket id no client has used yet.
NoSocket ==
    [state |-> "none", handshakeToken |-> Undefined, authenticated |-> "unset",
     dataToken |-> Undefined, error |-> ""]

\* The hub is watched over steps of the clock that tell a live session from
\* an expired one.
HubTickSteps == {SessionTtl, 1}

InitHub ==
    /\ sockets = [s \in SocketIds |-> NoSocket]
    /\ emitted = <<>>
    /\ wire = [s \in SocketIds |-> <<>>]
    /\ inbox = [s \in SocketIds |-> <<>>]

\* The server's sockets: admitted and not disconnected.
Connected == {s \in SocketIds : sockets[s].state = "connected"}

\* As setupMiddleware, without the test of isValid (lines 34-36).
setupMiddleware_noCheck(store, token, clock) ==
    IF Falsy(token)
    THEN [admitted |-> TRUE, error |-> "", authenticated |-> "false",
          dataToken |-> Undefined, store |-> store]
    ELSE [admitted |-> TRUE, error |-> "", authenticated |-> "true",
          dataToken |-> token,
          store |-> validateSessionToken(store, token, clock).store]

\* As setupMiddleware, without the branch of lines 27-30: a handshake without
\* a token is validated like any other.
setupMiddleware_requiresToken(store, token, clock) ==
    LET isValid == validateSessionToken(store, token, clock) IN
    IF ~isValid.result
    THEN [admitted |-> FALSE, error |-> AuthenticationFailed,
          authenticated |-> "unset", dataToken |-> Undefined,
          store |-> isValid.store]
    ELSE [admitted |-> TRUE, error |-> "", authenticated |-> "true",
          dataToken |-> token, store |-> isValid.store]

\* The middleware of setupMiddleware for a handshake carrying token: whether
\* next() was called without an error, the error passed to it, what the
\* middleware wrote to socket.data, and the token store after it.
setupMiddleware(store, token, clock) ==
    IF Falsy(token)
    THEN [admitted |-> TRUE, error |-> "", authenticated |-> "false",
          dataToken |-> Undefined, store |-> store]
    ELSE LET isValid == validateSessionToken(store, token, clock) IN
         IF ~isValid.result
         THEN [admitted |-> FALSE, error |-> AuthenticationFailed,
               authenticated |-> "unset", dataToken |-> Undefined,
               store |-> isValid.store]
         ELSE [admitted |-> TRUE, error |-> "", authenticated |-> "true",
               dataToken |-> token, store |-> isValid.store]

\* A client opens a connection with auth.token = token: the middleware runs,
\* and the socket is connected or the handshake is refused with the error.
Handshake(s, token) ==
    LET m == setupMiddleware(tokens, token, now) IN
    /\ sockets[s].state = "none"
    /\ \A o \in SocketIds : o < s => sockets[o].state # "none"
    /\ sockets' = [sockets EXCEPT ![s] =
            [state |-> IF m.admitted THEN "connected" ELSE "refused",
             handshakeToken |-> IF m.admitted THEN token ELSE Undefined,
             authenticated |-> m.authenticated,
             dataToken |-> m.dataToken,
             error |-> m.error]]
    /\ tokens' = m.store
    /\ last' = IF Falsy(token) THEN last
               ELSE Call("validateSessionToken", token, m.admitted,
                         Removed(tokens, m.store))
    /\ UNCHANGED <<now, ticks, nextUuid, cleanupInterval, issued, requests,
                   emitted, wire, inbox>>

\* As Disconnect, with a 'disconnect' handler that revokes the session token
\* the connection was admitted with.
Disconnect_revokes(s) ==
    /\ sockets[s].state = "connected"
    /\ sockets' = [sockets EXCEPT ![s] = [NoSocket EXCEPT !.state = "disconnected"]]
    /\ wire' = [wire EXCEPT ![s] = <<>>]
    /\ inbox' = [inbox EXCEPT ![s] = <<>>]
    /\ tokens' = invalidateQRToken(tokens, sockets[s].dataToken)
    /\ UNCHANGED <<now, ticks, nextUuid, cleanupInterval, issued, last,
                   requests, emitted>>

\* An admitted connection ends; the 'disconnect' handler only logs.  What was
\* written to the connection and not yet received is lost with it, and the
\* client is gone with what it had received.
Disconnect(s) ==
    /\ sockets[s].state = "connected"
    /\ sockets' = [sockets EXCEPT ![s] = [NoSocket EXCEPT !.state = "disconnected"]]
    /\ wire' = [wire EXCEPT ![s] = <<>>]
    /\ inbox' = [inbox EXCEPT ![s] = <<>>]
    /\ UNCHANGED <<authVars, requests, emitted>>

Events == {"image-insert", "article-list", "article-update"}

\* As ioEmit, sending to the authenticated sockets only.
ioEmit_authenticatedOnly(socks, out, id) ==
    [s \in SocketIds |->
        IF socks[s].state = "connected" /\ socks[s].authenticated = "true"
        THEN Append(out[s], id) ELSE out[s]]

\* As ioEmit, the new packet written ahead of what the connection carries.
ioEmit_prepends(socks, out, id) ==
    [s \in SocketIds |->
        IF socks[s].state = "connected" THEN <<id>> \o out[s] ELSE out[s]]

\* As ioEmit, with a catch-up: a connection that carries nothing is sent
\* every broadcast issued so far.
ioEmit_replays(socks, out, id) ==
    [s \in SocketIds |->
        IF socks[s].state = "connected"
        THEN IF out[s] = <<>> THEN [i \in 1..id |-> i] ELSE Append(out[s], id)
        ELSE out[s]]

\* As ioEmit, sending only to the sockets that would be admitted now: the
\* unauthenticated ones and those whose session token is still valid.
ioEmit_revalidates(socks, out, id) ==
    [s \in SocketIds |->
        IF /\ socks[s].state = "connected"
           /\ \/ socks[s].authenticated # "true"
              \/ validateSessionToken(tokens, socks[s].dataToken, now).result
        THEN Append(out[s], id) ELSE out[s]]

\* this.io.emit(event, payload): the packet goes to every socket of the
\* server, which are the connected ones; out is what each connection carries.
ioEmit(socks, out, id) ==
    [s \in SocketIds |->
        IF socks[s].state = "connected" THEN Append(out[s], id) ELSE out[s]]

\* emitImageInsert, emitArticleList, emitArticleUpdate: one this.io.emit of
\* the event, whose name and payload play no part in where it goes.
Emit(event) ==
    /\ event \in Events
    /\ Len(emitted) < MaxEmits
    /\ emitted' = Append(emitted, Connected)
    /\ wire' = ioEmit(sockets, wire, Len(emitted) + 1)
    /\ UNCHANGED <<authVars, requests, sockets, inbox>>

emitImageInsert == Emit("image-insert")

emitArticleList == Emit("article-list")

emitArticleUpdate == Emit("article-update")

\* The client of an open connection receives the next packet written to it.
Deliver(s) ==
    /\ sockets[s].state = "connected"
    /\ wire[s] # <<>>
    /\ inbox' = [inbox EXCEPT ![s] = Append(@, Head(wire[s]))]
    /\ wire' = [wire EXCEPT ![s] = Tail(@)]
    /\ UNCHANGED <<authVars, requests, sockets, emitted>>

NextBroadcast ==
    \/ GenerateQRToken /\ UNCHANGED <<requests, hubVars>>
    \/ \E qrToken \in DOMAIN tokens :
        ValidateQRTokenAndIssueSession(qrToken) /\ UNCHANGED <<requests, hubVars>>
    \/ \E s \in SocketIds, token \in HandshakeTokens : Handshake(s, token)
    \/ \E s \in SocketIds : Disconnect(s)
    \/ emitImageInsert
    \/ emitArticleList
    \/ emitArticleUpdate
    \/ \E s \in SocketIds : Deliver(s)

NextHub ==
    \/ \E d \in HubTickSteps : Tick(d) /\ UNCHANGED <<requests, hubVars>>
    \/ GenerateQRToken /\ UNCHANGED <<requests, hubVars>>
    \/ \E qrToken \in DOMAIN tokens :
        ValidateQRTokenAndIssueSession(qrToken) /\ UNCHANGED <<requests, hubVars>>
    \/ InvalidateAllTokens /\ UNCHANGED <<requests, hubVars>>
    \/ \E s \in SocketIds, token \in HandshakeTokens : Handshake(s, token)
    \/ \E s \in SocketIds : Disconnect(s)

\* ------------------------------------------------------------ RateLimiter

\* The limiter's time is counted in half seconds, so that rounding to whole
\* seconds shows: 1000 ms are UnitsPerSecond units.
UnitsPerSecond == 2

\* new RateLimiter(maxRequests, windowMs): the server builds its limiters
\* with windows of whole seconds (60 * 1000).
windowMs == WindowSeconds * UnitsPerSecond

\* A header or an address that is missing (undefined).
NoValue == <<"undefined">>

\* 'unknown'
Unknown == <<"u", "n", "k", "n", "o", "w", "n">>

\* if (value): undefined and the empty string are falsy.
Truthy(value) == value # NoValue /\ value # <<>>

\* str.split(','): the pieces of str between its commas.
RECURSIVE Split(_)
Split(str) ==
    IF \A i \in 1..Len(str) : str[i] # ","
    THEN <<str>>
    ELSE LET c == CHOOSE i \in 1..Len(str) :
                    str[i] = "," /\ \A j \in 1..(i - 1) : str[j] # ","
         IN <<SubSeq(str, 1, c - 1)>> \o Split(SubSeq(str, c + 1, Len(str)))

\* str.trim(): str without its leading and trailing white space.
RECURSIVE Trim(_)
Trim(str) ==
    IF str = <<>> THEN str
    ELSE IF Head(str) = " " THEN Trim(Tail(str))
    ELSE IF str[Len(str)] = " " THEN Trim(SubSeq(str, 1, Len(str) - 1))
    ELSE str

\* As getIdentifier, without lines 304-308: the header is not looked at.
getIdentifier_ignoresHeader(req) ==
    IF Truthy(req.ip) THEN req.ip
    ELSE IF Truthy(req.remoteAddress) THEN req.remoteAddress
    ELSE Unknown

\* private getIdentifier(req)
getIdentifier(req) ==
    LET forwarded == req.forwarded IN
    IF Truthy(forwarded)
    THEN LET ips == Split(forwarded) IN Trim(ips[1])
    ELSE IF Truthy(req.ip) THEN req.ip
    ELSE IF Truthy(req.remoteAddress) THEN req.remoteAddress
    ELSE Unknown

\* Math.ceil(ms / 1000), for a time in units
CeilSeconds(d) == -((-d) \div UnitsPerSecond)

\* n.toString(), for n >= 0: the decimal digits
Digit(n) == SubSeq(<<"0", "1", "2", "3", "4", "5", "6", "7", "8", "9">>, n + 1, n + 1)

RECURSIVE toString(_)
toString(n) == IF n < 10 THEN Digit(n) ELSE toString(n \div 10) \o Digit(n % 10)

\* A response on which nothing was set.
NoHeader == <<>>

\* The window of identifier after lines 267-277: a new one if there is none
\* or if it has expired.
WindowOf(store, identifier, clock) ==
    IF identifier \notin DOMAIN store \/ store[identifier].resetAt < clock
    THEN [count |-> 0, resetAt |-> clock + windowMs]
    ELSE store[identifier]

\* The outcome of the middleware once entry.count has been incremented.
Gate(store, identifier, entry, clock, fresh) ==
    IF entry.count > maxRequests
    THEN LET retryAfter == CeilSeconds(entry.resetAt - clock) IN
         [store |-> MapSet(store, identifier, entry), identifier |-> identifier,
          fresh |-> fresh, next |-> FALSE, status |-> 429,
          retryAfter |-> retryAfter, retryAfterHeader |-> toString(retryAfter),
          remaining |-> NoHeader]
    ELSE [store |-> MapSet(store, identifier, entry), identifier |-> identifier,
          fresh |-> fresh, next |-> TRUE, status |-> 0,
          retryAfter |-> 0, retryAfterHeader |-> NoHeader,
          remaining |-> toString(maxRequests - entry.count)]

\* As middleware, with the test of line 282 as count > maxRequests + 1.
middleware_allowsOneMore(store, req, clock) ==
    LET identifier == getIdentifier(req)
        fresh == identifier \notin DOMAIN store \/ store[identifier].resetAt < clock
        window == WindowOf(store, identifier, clock)
        entry == [window EXCEPT !.count = @ + 1]
        gate == Gate(store, identifier, entry, clock, fresh)
    IN IF entry.count = maxRequests + 1
       THEN [gate EXCEPT !.next = TRUE, !.status = 0, !.retryAfterHeader = NoHeader]
       ELSE gate

\* As middleware, with the test of line 282 as count >= maxRequests.
middleware_rejectsAtLimit(store, req, clock) ==
    LET identifier == getIdentifier(req)
        fresh == identifier \notin DOMAIN store \/ store[identifier].resetAt < clock
        window == WindowOf(store, identifier, clock)
        entry == [window EXCEPT !.count = @ + 1]
    IN Gate(store, identifier, [entry EXCEPT !.count = @ + 1], clock, fresh)

\* As middleware, with line 279 incrementing the count of every window.
middleware_countsEveryone(store, req, clock) ==
    LET identifier == getIdentifier(req)
        fresh == identifier \notin DOMAIN store \/ store[identifier].resetAt < clock
        window == WindowOf(store, identifier, clock)
        entry == [window EXCEPT !.count = @ + 1]
        gate == Gate(store, identifier, entry, clock, fresh)
    IN [gate EXCEPT !.store =
            [k \in DOMAIN gate.store |->
                IF k = identifier THEN gate.store[k]
                ELSE [gate.store[k] EXCEPT !.count = @ + 1]]]

\* As middleware, with Math.floor for Math.ceil in line 283.
middleware_floorsRetryAfter(store, req, clock) ==
    LET identifier == getIdentifier(req)
        fresh == identifier \notin DOMAIN store \/ store[identifier].resetAt < clock
        window == WindowOf(store, identifier, clock)
        entry == [window EXCEPT !.count = @ + 1]
        gate == Gate(store, identifier, entry, clock, fresh)
        floored == (entry.resetAt - clock) \div UnitsPerSecond
    IN IF gate.next THEN gate
       ELSE [gate EXCEPT !.retryAfter = floored, !.retryAfterHeader = toString(floored)]

\* middleware(): the handler it returns, called with req at time clock: the
\* table after the call, the identifier used, whether a new window was made,
\* whether next() was called, and the status, body and headers of the
\* response.
middleware(store, req, clock) ==
    LET identifier == getIdentifier(req)
        fresh == identifier \notin DOMAIN store \/ store[identifier].resetAt < clock
        window == WindowOf(store, identifier, clock)
        entry == [window EXCEPT !.count = @ + 1]
    IN Gate(store, identifier, entry, clock, fresh)

\* As cleanup, deleting every window whose resetAt <= now.
cleanup_atResetAt(store, clock) ==
    [k \in {j \in DOMAIN store : ~(store[j].resetAt <= clock)} |-> store[k]]

\* private cleanup(): delete every window whose resetAt < now
cleanup(store, clock) ==
    [k \in {j \in DOMAIN store : ~(store[j].resetAt < clock)} |-> store[k]]

\* As reset, without the test of line 329: every window is cleared.
reset_clearsAll(store, identifier) == [k \in {} |-> store[k]]

\* reset(identifier?)
reset(store, identifier) ==
    IF Truthy(identifier) THEN MapDelete(store, identifier)
    ELSE [k \in {} |-> store[k]]

\* The transport addresses of the clients.
Addresses == {<<"a">>, <<"b">>}

\* A request: its X-Forwarded-For header, req.ip and
\* req.socket.remoteAddress.
Req(forwarded, ip, remoteAddress) ==
    [forwarded |-> forwarded, ip |-> ip, remoteAddress |-> remoteAddress]

\* Requests that reach the server directly.
DirectRequests == {Req(NoValue, a, a) : a \in Addresses}

\* X-Forwarded-For headers: one hop, several hops, with and without white
\* space, an empty first entry, an empty header.
ForwardedHeaders ==
    {<<"a">>, <<"b">>, <<"b", ",", " ", "a">>, <<" ", "b", " ", ",", "a">>,
     <<",", "a">>, <<" ">>, <<>>}

\* Requests that come through proxies, and requests without any address.
ProxiedRequests ==
    {Req(h, a, a) : h \in ForwardedHeaders, a \in Addresses}
        \cup {Req(NoValue, <<"a">>, <<"a">>), Req(NoValue, NoValue, <<"b">>),
              Req(NoValue, NoValue, NoValue)}

\* What reset is called with: an identifier, or nothing.
ResetArguments == Addresses \cup {NoValue}

NoCall ==
    [op |-> "new", req |-> Req(NoValue, NoValue, NoValue), next |-> FALSE,
     status |-> 0, retryAfter |-> 0, retryAfterHeader |-> NoHeader,
     remaining |-> NoHeader]

InitLimiter ==
    /\ rlNow = 0
    /\ limiterRequests = EmptyMap
    /\ rlLog = <<>>
    /\ rlLast = NoCall

\* Half a second passes.
LimiterTick ==
    /\ rlNow < MaxLimiterTime
    /\ rlNow' = rlNow + 1
    /\ UNCHANGED <<limiterRequests, rlLog, rlLast>>

\* A request passes through the middleware.
LimiterRequest(req) ==
    LET m == middleware(limiterRequests, req, rlNow) IN
    /\ Len(rlLog) < MaxCalls
    /\ limiterRequests' = m.store
    /\ rlLog' = Append(rlLog, [op |-> "request", id |-> m.identifier,
                               at |-> rlNow, next |-> m.next, fresh |-> m.fresh])
    /\ rlLast' = [op |-> "request", req |-> req, next |-> m.next,
                  status |-> m.status, retryAfter |-> m.retryAfter,
                  retryAfterHeader |-> m.retryAfterHeader,
                  remaining |-> m.remaining]
    /\ UNCHANGED rlNow

\* The timer of the constructor runs cleanup().
LimiterCleanup ==
    /\ limiterRequests' = cleanup(limiterRequests, rlNow)
    /\ UNCHANGED <<rlNow, rlLog, rlLast>>

\* reset(identifier) and reset()
LimiterReset(identifier) ==
    /\ Len(rlLog) < MaxCalls
    /\ limiterRequests' = reset(limiterRequests, identifier)
    /\ rlLog' = Append(rlLog, [op |-> "reset", id |-> identifier, at |-> rlNow,
                               next |-> FALSE, fresh |-> FALSE])
    /\ rlLast' = [NoCall EXCEPT !.op = "reset"]
    /\ UNCHANGED rlNow

NextLimiter ==
    \/ LimiterTick
    \/ \E req \in DirectRequests : LimiterRequest(req)
    \/ LimiterCleanup
    \/ \E identifier \in ResetArguments : LimiterReset(identifier)

NextForwarded ==
    \E req \in ProxiedRequests : LimiterRequest(req)

\* A second limiter, built like the first: removed holds the identifiers
\* whose window the timer of the first has deleted.
InitPlain ==
    rlPlain = [requests |-> EmptyMap, last |-> NoCall, removed |-> {}]

\* A request passes through the middleware of both limiters.
RequestBoth(req) ==
    LET m == middleware(rlPlain.requests, req, rlNow) IN
    /\ LimiterRequest(req)
    /\ rlPlain' = [rlPlain EXCEPT
            !.requests = m.store,
            !.last = [op |-> "request", req |-> req, next |-> m.next,
                      status |-> m.status, retryAfter |-> m.retryAfter,
                      retryAfterHeader |-> m.retryAfterHeader,
                      remaining |-> m.remaining]]

\* The timer of the first limiter runs cleanup(); the second has none.
CleanupFirst ==
    /\ LimiterCleanup
    /\ rlPlain' = [rlPlain EXCEPT !.removed =
            @ \cup (DOMAIN limiterRequests
                        \ DOMAIN cleanup(limiterRequests, rlNow))]

NextCleanup ==
    \/ LimiterTick /\ UNCHANGED rlPlain
    \/ \E req \in DirectRequests : RequestBoth(req)
    \/ CleanupFirst

\* ----------------------------------------------------------- ErrorHandler

\* A text is a sequence of fragments: each fragment is one of the substrings
\* the code looks for, or text in which none of them occurs.  A literal of
\* the source is a text of one fragment.
Lit(string) == <<string>>

\* fragment.includes(needle), for the fragments and needles of the model:
\* 'unauthorized' includes 'auth', 'websocket' includes 'socket'.
Contains(fragment, needle) ==
    \/ fragment = needle
    \/ fragment = "unauthorized" /\ needle = "auth"
    \/ fragment = "websocket" /\ needle = "socket"

\* text.includes(needle)
Includes(text, needle) == \E i \in DOMAIN text : Contains(text[i], needle)

\* text.startsWith(prefix)
StartsWith(text, prefix) == text # <<>> /\ text[1] = prefix

\* new AppError(message, type, retryable, statusCode, originalError)
AppError(message, type, retryable, statusCode, originalError) ==
    [message |-> message, type |-> type, retryable |-> retryable,
     statusCode |-> statusCode, originalError |-> originalError]

\* error instanceof AppError
IsAppError(error) == "type" \in DOMAIN error

\* An error as it is thrown: its message, and error.code || error.name || ''.
RawError(message, code) == [message |-> message, code |-> code]

retryableCodes ==
    {"RequestTimeout", "RequestTimeoutException", "PriorRequestNotComplete",
     "ConnectionError", "NetworkingError", "ThrottlingException",
     "TooManyRequestsException", "ServiceUnavailable", "SlowDown"}

isS3ErrorRetryable(errorCode) ==
    \E code \in retryableCodes : Includes(errorCode, code)

\* ErrorClassifier.classify(error)
classify(error) ==
    IF IsAppError(error) THEN error
    ELSE
    LET errorMessage == IF error.message = <<>>
                        THEN Lit("Unknown error occurred") ELSE error.message
        errorCode == error.code
    IN  IF \/ Includes(errorMessage, "token")
           \/ Includes(errorMessage, "auth")
           \/ Includes(errorMessage, "unauthorized")
           \/ errorCode = Lit("EAUTH")
        THEN AppError(errorMessage, "AUTHENTICATION", FALSE, 401, error)
        ELSE IF \/ Includes(errorMessage, "S3")
                \/ Includes(errorMessage, "AWS")
                \/ Includes(errorMessage, "bucket")
                \/ StartsWith(errorCode, "S3")
        THEN LET retryable == isS3ErrorRetryable(errorCode) IN
             AppError(errorMessage, "S3", retryable,
                      IF retryable THEN 503 ELSE 500, error)
        ELSE IF \/ errorCode \in {Lit("ENOENT"), Lit("EACCES"), Lit("EPERM"),
                                  Lit("EISDIR")}
                \/ Includes(errorMessage, "file")
                \/ Includes(errorMessage, "directory")
        THEN AppError(errorMessage, "FILE_SYSTEM", FALSE,
                      IF errorCode = Lit("ENOENT") THEN 404 ELSE 500, error)
        ELSE IF \/ errorCode \in {Lit("ECONNREFUSED"), Lit("ETIMEDOUT"),
                                  Lit("ENOTFOUND"), Lit("ENETUNREACH")}
                \/ Includes(errorMessage, "network")
                \/ Includes(errorMessage, "connection")
        THEN AppError(errorMessage, "NETWORK", TRUE, 503, error)
        ELSE IF \/ Includes(errorMessage, "websocket")
                \/ Includes(errorMessage, "socket")
                \/ errorCode = Lit("WS_ERROR")
        THEN AppError(errorMessage, "WEBSOCKET", TRUE, 503, error)
        ELSE IF \/ Includes(errorMessage, "required")
                \/ Includes(errorMessage, "invalid")
                \/ Includes(errorMessage, "validation")
        THEN AppError(errorMessage, "VALIDATION", FALSE, 400, error)
        ELSE AppError(errorMessage, "UNKNOWN", FALSE, 500, error)

\* ErrorHandler.handle(error, context): classifies, and logs on the server.
handle(error) == classify(error)

\* originalError?.code
OriginalCode(error) ==
    IF "code" \in DOMAIN error.originalError
    THEN error.originalError.code ELSE <<>>

formatAuthError(error) ==
    IF Includes(error.message, "expired")
    THEN Lit("Your session has expired. Please scan the QR code again.")
    ELSE IF Includes(error.message, "invalid")
    THEN Lit("Invalid authentication. Please scan the QR code again.")
    ELSE Lit("Authentication failed. Please try again.")

formatS3Error(error) ==
    IF Includes(error.message, "credentials")
    THEN Lit("AWS credentials are invalid. Please check your configuration.")
    ELSE IF Includes(error.message, "bucket")
    THEN Lit("S3 bucket not found or inaccessible. Please check your configuration.")
    ELSE IF Includes(error.message, "permission")
    THEN Lit("Permission denied. Please check your AWS IAM permissions.")
    ELSE IF error.retryable
    THEN Lit("S3 service is temporarily unavailable. Retrying...")
    ELSE Lit("Failed to access S3 storage. Please check your configuration.")

formatFileSystemError(error) ==
    LET code == OriginalCode(error) IN
    IF code = Lit("ENOENT")
    THEN Lit("File not found. Please check the file path.")
    ELSE IF code \in {Lit("EACCES"), Lit("EPERM")}
    THEN Lit("Permission denied. Please check file permissions.")
    ELSE IF code = Lit("EISDIR")
    THEN Lit("Expected a file but found a directory.")
    ELSE Lit("File system error. Please try again.")

formatWebSocketError(error) ==
    IF Includes(error.message, "connection")
    THEN Lit("Connection lost. Reconnecting...")
    ELSE Lit("Real-time communication error. Please refresh the page.")

formatNetworkError(error) ==
    LET code == OriginalCode(error) IN
    IF code = Lit("ECONNREFUSED")
    THEN Lit("Cannot connect to server. Please check if the server is running.")
    ELSE IF code = Lit("ETIMEDOUT")
    THEN Lit("Connection timed out. Please check your network connection.")
    ELSE IF code = Lit("ENOTFOUND")
    THEN Lit("Server not found. Please check the URL.")
    ELSE Lit("Network error. Please check your connection and try again.")

\* ErrorMessageFormatter.format(error)
format(error) ==
    CASE error.type = "AUTHENTICATION" -> formatAuthError(error)
      [] error.type = "S3" -> formatS3Error(error)
      [] error.type = "FILE_SYSTEM" -> formatFileSystemError(error)
      [] error.type = "WEBSOCKET" -> formatWebSocketError(error)
      [] error.type = "NETWORK" -> formatNetworkError(error)
      [] error.type = "VALIDATION" -> error.message
      [] OTHER -> Lit("An unexpected error occurred. Please try again.")

\* Errors an operation can fail with: of every type the classifier knows,
\* raw and already classified.
OperationErrors ==
    {RawError(<<"Invalid or expired session ", "token">>, Lit("Error")),
     RawError(<<"articleId is ", "required">>, Lit("Error")),
     RawError(<<"S3", " request timed out">>, Lit("RequestTimeout")),
     RawError(<<"The specified ", "bucket", " does not exist">>,
              Lit("NoSuchBucket")),
     RawError(<<"ENOENT: no such ", "file", " or ", "directory">>,
              Lit("ENOENT")),
     RawError(<<"connect ECONNREFUSED 127.0.0.1:3001">>, Lit("ECONNREFUSED")),
     RawError(<<"websocket", " error">>, Lit("WS_ERROR")),
     RawError(<<"Failed to upload image">>, Lit("Error")),
     RawError(<<>>, <<>>),
     AppError(Lit("Upload rejected"), "VALIDATION", FALSE, 400,
              RawError(<<>>, <<>>)),
     AppError(Lit("Server busy"), "NETWORK", TRUE, 503, RawError(<<>>, <<>>))}

\* ----------------------------------------------------------- RetryHandler

\* baseDelay, in units of 10 ms: the default of 1000 ms, and twice that.
BaseDelays == {100, 200}

\* Math.random(), in tenths: the least value, one in the middle, and one
\* close to 1, which it never returns.
Randoms == {0, 5, 9}

RECURSIVE Pow2(_)
\* Math.pow(2, attempt)
Pow2(attempt) == IF attempt = 0 THEN 1 ELSE 2 * Pow2(attempt - 1)

\* Math.random() * 0.3 * delay
Jitters(delay) == {(random * 3 * delay) \div 100 : random \in Randoms}

NoError == RawError(Lit("none"), Lit("none"))

\* What an invocation of the operation that succeeded leaves in the history.
Fulfilled == [value |-> "ok"]

\* No call of withRetry has been made.
InitRetry ==
    retry = [state |-> "idle", maxRetries |-> 0, baseDelay |-> 0,
             attempt |-> 0, outcomes |-> <<>>, waits |-> <<>>,
             thrown |-> NoError]

\* As catchBlock, retrying whatever the error is.
catchBlock_retriesAll(r, error, jitter) ==
    LET appError == classify(error)
        delay == r.baseDelay * Pow2(r.attempt)
    IN  IF r.attempt = r.maxRetries
        THEN [r EXCEPT !.state = "thrown", !.thrown = appError,
                       !.outcomes = Append(@, error)]
        ELSE [r EXCEPT !.state = "sleeping",
                       !.outcomes = Append(@, error),
                       !.waits = Append(@, [delay |-> delay, jitter |-> jitter])]

\* The catch block of withRetry for the error the operation rejected with:
\* it throws the classified error, or computes the delay and sleeps.
catchBlock(r, error, jitter) ==
    LET appError == classify(error)
        delay == r.baseDelay * Pow2(r.attempt)
    IN  IF ~appError.retryable
        THEN [r EXCEPT !.state = "thrown", !.thrown = appError,
                       !.outcomes = Append(@, error)]
        ELSE IF r.attempt = r.maxRetries
        THEN [r EXCEPT !.state = "thrown", !.thrown = appError,
                       !.outcomes = Append(@, error)]
        ELSE [r EXCEPT !.state = "sleeping",
                       !.outcomes = Append(@, error),
                       !.waits = Append(@, [delay |-> delay, jitter |-> jitter])]

\* RetryHandler.withRetry(operation, maxRetries, baseDelay) is called: the
\* loop starts and the operation is invoked.
WithRetry(maxRetries, baseDelay) ==
    /\ retry.state = "idle"
    /\ retry' = [retry EXCEPT !.state = "calling", !.maxRetries = maxRetries,
                              !.baseDelay = baseDelay]

\* The promise of the operation is fulfilled: withRetry returns its value.
OperationResolves ==
    /\ retry.state = "calling"
    /\ retry' = [retry EXCEPT !.state = "returned",
                              !.outcomes = Append(@, Fulfilled)]

\* The promise of the operation is rejected with error.
OperationRejects(error) ==
    /\ retry.state = "calling"
    /\ \E jitter \in Jitters(retry.baseDelay * Pow2(retry.attempt)) :
        retry' = catchBlock(retry, error, jitter)

\* The timer of sleep(totalDelay) fires: attempt++, and the operation is
\* invoked again.
SleepDone ==
    /\ retry.state = "sleeping"
    /\ retry' = [retry EXCEPT !.state = "calling", !.attempt = @ + 1]

\* What follows the call without the caller: the operation settles, the
\* timer fires.
RetryProgress ==
    \/ OperationResolves
    \/ \E error \in OperationErrors : OperationRejects(error)
    \/ SleepDone

NextRetry ==
    \/ \E maxRetries \in 0..MaxRetries, baseDelay \in BaseDelays :
        WithRetry(maxRetries, baseDelay)
    \/ OperationResolves
    \/ \E error \in OperationErrors : OperationRejects(error)
    \/ SleepDone

\* ------------------------------------- routes of images, articles, config

UploadRoute == "POST /api/images/upload"
UploadMobileRoute == "POST /api/images/upload-mobile"
ArticlesRoute == "GET /api/articles"
ImagesRoute == "GET /api/images"
ConfigRoute == "POST /api/config"

\* The routes whose handler tests the session token.
CheckedRoutes == {UploadRoute, UploadMobileRoute, ArticlesRoute}
Routes == CheckedRoutes \cup {ImagesRoute, ConfigRoute}

\* req.cookies?.sessionToken
Cookies == Presentable \cup {Undefined, EmptyString}

\* req.headers.authorization: absent, or a scheme followed by credentials.
NoAuthorization == [scheme |-> "none", credentials |-> Undefined]
Authorization(scheme, credentials) ==
    [scheme |-> scheme, credentials |-> credentials]

\* The credentials of a request: none, a cookie, a Bearer header, a header
\* of another scheme, and a cookie together with a header.
Credentials ==
    {<<cookie, NoAuthorization>> : cookie \in Presentable \cup {Undefined}}
    \cup {<<EmptyString, Authorization("Bearer ", credentials)>> :
            credentials \in {nextUuid - 1, EmptyString}}
    \cup {<<Undefined, Authorization("Basic ", nextUuid - 1)>>,
          <<InvalidValue, Authorization("Bearer ", nextUuid - 1)>>}

\* req.headers.authorization?.replace('Bearer ', ''): the credentials of a
\* Bearer header and of a header without a scheme; a header of another scheme
\* as it is, which is no token value.
replaceBearer(authorization) ==
    IF authorization = NoAuthorization THEN Undefined
    ELSE IF authorization.scheme \in {"Bearer ", ""}
    THEN authorization.credentials
    ELSE InvalidValue

\* req.cookies?.sessionToken || req.headers.authorization?.replace(...)
sessionTokenOf(cookie, authorization) ==
    IF ~Falsy(cookie) THEN cookie ELSE replaceBearer(authorization)

\* req.body: with every field the handler requires, or without one of them.
Bodies == {"complete", "incomplete"}

\* What the collaborators fail with: the S3 client, the keychain and the
\* file system.
CollaboratorErrors ==
    {RawError(<<"S3", " request timed out">>, Lit("RequestTimeout")),
     RawError(<<"Please reduce your request rate.">>, Lit("SlowDown")),
     RawError(<<"The specified ", "bucket", " does not exist">>,
              Lit("NoSuchBucket")),
     RawError(<<"EACCES: permission denied, mkdir '/home/user/.blog-assistant'">>,
              Lit("EACCES"))}

\* What the middleware in front of the routes passes to next(err).
MiddlewareErrors ==
    {RawError(Lit("Not allowed by CORS"), Lit("Error")),
     RawError(<<"Unexpected ", "token", " } in JSON at position 12">>,
              Lit("SyntaxError")),
     RawError(Lit("request entity too large"), Lit("PayloadTooLargeError"))}

\* uploadImage before it reaches the S3 client.
NotInitialized == RawError(<<"S3", " client not initialized">>, Lit("Error"))

\* No request: route the route of a request, presented whether it carried a
\* session token, live whether that was a session token of the store that
\* had not expired, checked whether validateSessionToken was called with it;
\* status, error and details the response; raw the error of a collaborator
\* or of a middleware; sends the PutObject commands sent, broadcast whether
\* image-insert was emitted, listed whether the body holds a list.
NoApiCall ==
    [state |-> "none", route |-> "", presented |-> FALSE,
     live |-> FALSE, checked |-> FALSE, status |-> 0, error |-> <<>>,
     details |-> <<>>, raw |-> NoError, sends |-> 0, broadcast |-> FALSE,
     listed |-> FALSE]

InitApi == call = NoApiCall

\* A response with a status and the error of its body.
Answer(request, status, error) ==
    [request EXCEPT !.state = "answered", !.status = status, !.error = error]

\* As authorize, accepting every token that is presented.
authorize_presentOnly(store, sessionToken, clock) ==
    [ok |-> ~Falsy(sessionToken), checked |-> FALSE, store |-> store]

\* if (!sessionToken || !authService.validateSessionToken(sessionToken)):
\* whether the request goes on, whether validateSessionToken was called, and
\* the token store after it.
authorize(store, sessionToken, clock) ==
    IF Falsy(sessionToken)
    THEN [ok |-> FALSE, checked |-> FALSE, store |-> store]
    ELSE LET isValid == validateSessionToken(store, sessionToken, clock) IN
         [ok |-> isValid.result, checked |-> TRUE, store |-> isValid.store]

\* The token is a session token of the store that has not expired.
LiveSession(store, sessionToken, clock) ==
    /\ sessionToken \in DOMAIN store
    /\ store[sessionToken].type = "session"
    /\ ~Expired(store[sessionToken], clock)

\* The handlers of POST /api/images/upload, POST /api/images/upload-mobile
\* and GET /api/articles, up to the response or to the await of uploadImage.
CheckedRequest(route, sessionToken, body) ==
    LET a == authorize(tokens, sessionToken, now)
        request == [NoApiCall EXCEPT !.route = route,
                    !.presented = ~Falsy(sessionToken),
                    !.live = LiveSession(tokens, sessionToken, now),
                    !.checked = a.checked]
    IN  /\ tokens' = a.store
        /\ last' = IF a.checked
                   THEN Call("validateSessionToken", sessionToken, a.ok,
                             Removed(tokens, a.store))
                   ELSE last
        /\ call' =
                IF ~a.ok
                THEN Answer(request, 401, Lit("Invalid or expired session token"))
                ELSE IF route = ArticlesRoute
                THEN [Answer(request, 200, <<>>) EXCEPT !.listed = TRUE]
                ELSE IF body = "incomplete"
                THEN Answer(request, 400,
                        IF route = UploadRoute
                        THEN Lit("File and mimeType are required")
                        ELSE Lit("File, mimeType, and articleId are required"))
                ELSE [request EXCEPT !.state = "awaiting"]
        /\ UNCHANGED <<now, ticks, nextUuid, cleanupInterval, issued>>

\* The handlers of GET /api/images and POST /api/config, up to the response
\* or to the await of listImages and of saveConfig.
OpenRequest(route, sessionToken, body) ==
    LET request == [NoApiCall EXCEPT !.route = route,
                    !.presented = ~Falsy(sessionToken),
                    !.live = LiveSession(tokens, sessionToken, now)]
    IN  /\ call' =
                IF route = ConfigRoute /\ body = "incomplete"
                THEN Answer(request, 400, Lit("All AWS credentials are required"))
                ELSE [request EXCEPT !.state = "awaiting"]
        /\ UNCHANGED authVars

\* The request reaches the handler of its route.  The upload routes are behind
\* the rate limiter: this is a request it passes on.
ApiRequest(route, cookie, authorization, body) ==
    /\ call.state = "none"
    /\ IF route \in CheckedRoutes
       THEN CheckedRequest(route, sessionTokenOf(cookie, authorization), body)
       ELSE OpenRequest(route, sessionTokenOf(cookie, authorization), body)
    /\ UNCHANGED <<requests, hubVars, rlVars, sdVars, retry>>

\* As UploadSettles, with the broadcast made before the outcome of the upload
\* is known.
UploadSettles_emitsFirst(outcome) ==
    /\ outcome \in {Fulfilled, NotInitialized} \cup CollaboratorErrors
    /\ call' =
            IF outcome = Fulfilled
            THEN [Answer(call, 200, <<>>) EXCEPT !.sends = 1,
                    !.broadcast = (call.route = UploadMobileRoute)]
            ELSE [Answer(call, 500, Lit("Failed to upload image")) EXCEPT
                    !.raw = outcome,
                    !.sends = IF outcome = NotInitialized THEN 0 ELSE 1]
    /\ IF call.route = UploadMobileRoute
       THEN /\ Len(emitted) < MaxEmits
            /\ emitted' = Append(emitted, Connected)
            /\ wire' = ioEmit(sockets, wire, Len(emitted) + 1)
       ELSE UNCHANGED <<emitted, wire>>
    /\ UNCHANGED <<sockets, inbox>>

\* s3Service.uploadImage settles; the handler broadcasts (upload-mobile) and
\* answers, or its catch block answers.
UploadSettles(outcome) ==
    /\ outcome \in {Fulfilled, NotInitialized} \cup CollaboratorErrors
    /\ IF outcome = Fulfilled
       THEN /\ call' =
                    [Answer(call, 200, <<>>) EXCEPT !.sends = 1,
                        !.broadcast = (call.route = UploadMobileRoute)]
            /\ IF call.route = UploadMobileRoute
               THEN /\ Len(emitted) < MaxEmits
                    /\ emitted' = Append(emitted, Connected)
                    /\ wire' = ioEmit(sockets, wire, Len(emitted) + 1)
               ELSE UNCHANGED <<emitted, wire>>
       ELSE /\ call' =
                    [Answer(call, 500, Lit("Failed to upload image")) EXCEPT
                        !.raw = outcome,
                        !.sends = IF outcome = NotInitialized THEN 0 ELSE 1]
            /\ UNCHANGED <<emitted, wire>>
    /\ UNCHANGED <<sockets, inbox>>

\* s3Service.listImages settles.
ListSettles(outcome) ==
    /\ outcome \in {Fulfilled, NotInitialized} \cup CollaboratorErrors
    /\ call' =
            IF outcome = Fulfilled
            THEN [Answer(call, 200, <<>>) EXCEPT !.listed = TRUE]
            ELSE [Answer(call, 500, Lit("Failed to list images")) EXCEPT
                    !.raw = outcome]
    /\ UNCHANGED hubVars

\* configService.saveConfig settles: it throws, when the keychain and the
\* file both fail, 'Failed to save credentials: ' followed by the message of
\* the error of the file system, and the catch block of the route sends the
\* message as details.
ConfigSettles(outcome) ==
    /\ outcome \in {Fulfilled} \cup CollaboratorErrors
    /\ call' =
            IF outcome = Fulfilled
            THEN Answer(call, 200, <<>>)
            ELSE [Answer(call, 500, Lit("Failed to save configuration")) EXCEPT
                    !.raw = outcome,
                    !.details = Lit("Failed to save credentials: ")
                                    \o outcome.message]
    /\ UNCHANGED hubVars

\* The promise a handler awaits settles, and the handler runs to its response.
ApiSettle(outcome) ==
    /\ call.state = "awaiting"
    /\ CASE call.route \in {UploadRoute, UploadMobileRoute} ->
                UploadSettles(outcome)
         [] call.route = ImagesRoute -> ListSettles(outcome)
         [] OTHER -> ConfigSettles(outcome)
    /\ UNCHANGED <<authVars, requests, rlVars, sdVars, retry>>

\* A middleware in front of the routes calls next(err): the global error
\* handling middleware answers.
ApiMiddlewareError(route, err) ==
    /\ call.state = "none"
    /\ call' =
            [Answer([NoApiCall EXCEPT !.route = route],
                    handle(err).statusCode, format(handle(err)))
             EXCEPT !.raw = err]
    /\ UNCHANGED <<authVars, requests, hubVars, rlVars, sdVars, retry>>

NextApi ==
    \/ Tick(SessionTtl) /\ UNCHANGED <<requests, hubVars, rlVars, restVars>>
    \/ GenerateQRToken /\ UNCHANGED <<requests, hubVars, rlVars, restVars>>
    \/ \E qrToken \in DOMAIN tokens :
        ValidateQRTokenAndIssueSession(qrToken)
            /\ UNCHANGED <<requests, hubVars, rlVars, restVars>>
    \/ \E route \in {UploadRoute, UploadMobileRoute}, cr \in Credentials,
          body \in Bodies :
        ApiRequest(route, cr[1], cr[2], body)
    \/ \E route \in {ArticlesRoute, ImagesRoute}, cr \in Credentials :
        ApiRequest(route, cr[1], cr[2], "complete")
    \/ \E body \in Bodies :
        ApiRequest(ConfigRoute, Undefined, NoAuthorization, body)
    \/ \E outcome \in {Fulfilled, NotInitialized} \cup CollaboratorErrors :
        ApiSettle(outcome)
    \/ \E err \in MiddlewareErrors : ApiMiddlewareError(ConfigRoute, err)

\* ------------------------------------------------ the rate-limited routes

QrTokenRoute == "POST /api/auth/qr-token"
QrCodeRoute == "GET /api/auth/qr-code"

\* The limiter whose middleware() is registered in front of a route.
LimiterOf(route) ==
    IF route \in {UploadRoute, UploadMobileRoute}
    THEN "imageUploadLimiter"
    ELSE "qrCodeLimiter"

\* As LimitOf, both limiters built with 10 requests.
LimitOf_sameForAll(limiter) ==
    IF limiter \in {"imageUploadLimiter", "qrCodeLimiter"} THEN 10 ELSE 5

\* new RateLimiter(10, 60 * 1000) and new RateLimiter(5, 60 * 1000)
LimitOf(limiter) == IF limiter = "imageUploadLimiter" THEN 10 ELSE 5

\* 60 * 1000 ms
MinuteMs == 60 * UnitsPerSecond

\* middleware() of a limiter built with max requests per window: lines
\* 262-298 with this.maxRequests = max and this.windowMs = window.
limiterMiddleware(max, window, store, req, clock) ==
    LET identifier == getIdentifier(req)
        fresh == identifier \notin DOMAIN store \/ store[identifier].resetAt < clock
        started == IF fresh THEN [count |-> 0, resetAt |-> clock + window]
                   ELSE store[identifier]
        entry == [started EXCEPT !.count = @ + 1]
        retryAfter == CeilSeconds(entry.resetAt - clock)
    IN  IF entry.count > max
        THEN [store |-> MapSet(store, identifier, entry), next |-> FALSE,
              status |-> 429, retryAfter |-> retryAfter,
              remaining |-> NoHeader]
        ELSE [store |-> MapSet(store, identifier, entry), next |-> TRUE,
              status |-> 0, retryAfter |-> 0,
              remaining |-> toString(max - entry.count)]

\* The client whose requests are followed, and the editor that shows the QR
\* code it scans.
GatedClient == Req(NoValue, <<"a">>, <<"a">>)
Editor == Req(NoValue, <<"b">>, <<"b">>)

\* The routes in front of which one limiter stands.
RoutePairs == {{UploadRoute, UploadMobileRoute}, {QrTokenRoute, QrCodeRoute}}

\* createServer: both tables are empty.  routes are the routes the followed
\* client calls in the run; made counts the requests it has made to each
\* route, passed what the middleware did with the latest; broadcasts counts
\* the mobile uploads that were answered 200 after their session token had
\* passed validateSessionToken.
InitGatesFor(routes) ==
    gates = [imageUploadLimiter |-> EmptyMap, qrCodeLimiter |-> EmptyMap,
             routes |-> routes,
             made |-> [route \in {UploadRoute, UploadMobileRoute, QrTokenRoute,
                                  QrCodeRoute} |-> 0],
             passed |-> [next |-> FALSE, status |-> 0, retryAfter |-> 0,
                         remaining |-> NoHeader],
             broadcasts |-> 0]

InitGates == InitGatesFor({})

\* The handler of a rate-limited route, reached through next().
GatedHandler(route, sessionToken, body) ==
    CASE route \in {UploadRoute, UploadMobileRoute} ->
            CheckedRequest(route, sessionToken, body)
      [] route = QrTokenRoute ->
            /\ GenerateQRTokenUpTo(MaxGatedUuid)
            /\ call' = Answer([NoApiCall EXCEPT !.route = route], 200, <<>>)
      [] route = QrCodeRoute ->
            \* the response follows the rendering of the QR code, which
            \* touches nothing of the server
            /\ RegenerateQRCodeUpTo(MaxGatedUuid)
            /\ call' = Answer([NoApiCall EXCEPT !.route = route], 200, <<>>)

\* As GatedRequest, with the session check of the upload routes made in
\* front of the limiter.
GatedRequest_checksFirst(route, req, sessionToken, body) ==
    LET limiter == LimiterOf(route)
        m == limiterMiddleware(LimitOf(limiter), MinuteMs, gates[limiter], req,
                               rlNow)
        refused == route \in {UploadRoute, UploadMobileRoute}
                    /\ ~authorize(tokens, sessionToken, now).ok
        record == IF req = GatedClient
                  THEN [gates EXCEPT
                            !.made[route] = @ + 1,
                            !.passed = [next |-> m.next, status |-> m.status,
                                        retryAfter |-> m.retryAfter,
                                        remaining |-> m.remaining]]
                  ELSE gates
    IN  /\ call.state # "awaiting"
        /\ IF refused
           THEN /\ CheckedRequest(route, sessionToken, body)
                /\ gates' = [gates EXCEPT !.made[route] = @ + 1]
           ELSE /\ gates' = [record EXCEPT ![limiter] = m.store]
                /\ IF m.next
                   THEN GatedHandler(route, sessionToken, body)
                   ELSE /\ call' = Answer([NoApiCall EXCEPT !.route = route,
                                            !.presented = ~Falsy(sessionToken),
                                            !.live = LiveSession(tokens,
                                                        sessionToken, now)],
                                          429, Lit("Too many requests"))
                        /\ UNCHANGED authVars

\* A request to a rate-limited route: the middleware of the limiter runs,
\* and the handler of the route only if it calls next().
GatedRequest(route, req, sessionToken, body) ==
    LET limiter == LimiterOf(route)
        m == limiterMiddleware(LimitOf(limiter), MinuteMs, gates[limiter], req,
                               rlNow)
        record == IF req = GatedClient
                  THEN [gates EXCEPT
                            !.made[route] = @ + 1,
                            !.passed = [next |-> m.next, status |-> m.status,
                                        retryAfter |-> m.retryAfter,
                                        remaining |-> m.remaining]]
                  ELSE gates
    IN  /\ call.state # "awaiting"
        /\ gates' = [record EXCEPT ![limiter] = m.store]
        /\ IF m.next
           THEN GatedHandler(route, sessionToken, body)
           ELSE /\ call' = Answer([NoApiCall EXCEPT !.route = route,
                                    !.presented = ~Falsy(sessionToken),
                                    !.live = LiveSession(tokens, sessionToken,
                                                         now)],
                                  429, Lit("Too many requests"))
                /\ UNCHANGED authVars

\* The route is one the followed client calls, and the client has made
\* fewer than MaxRejected requests beyond the limit of its limiter.
MayRequest(route) ==
    LET store == gates[LimiterOf(route)]
        identifier == getIdentifier(GatedClient)
    IN  /\ route \in gates.routes
        /\ identifier \in DOMAIN store =>
            store[identifier].count < LimitOf(LimiterOf(route)) + MaxRejected

\* The editor asks for a QR token, once.
EditorRequest ==
    /\ getIdentifier(Editor) \notin DOMAIN gates.qrCodeLimiter
    /\ GatedRequest(QrTokenRoute, Editor, Undefined, "complete")

\* uploadImage settles and the handler answers.
GatedSettle(outcome) ==
    /\ ApiSettle(outcome)
    /\ gates' = [gates EXCEPT !.broadcasts =
            IF /\ call.route = UploadMobileRoute
               /\ call.checked /\ call.live
               /\ outcome = Fulfilled
            THEN @ + 1 ELSE @]

\* The mobile client exchanges the QR token of the latest code, once.
GatedPairing ==
    /\ \A k \in DOMAIN tokens : tokens[k].type # "session"
    /\ ValidateQRTokenAndIssueSessionUpTo(nextUuid - 1, MaxGatedUuid)
    /\ UNCHANGED <<call, hubVars, gates>>

\* One client's requests to the two routes of a limiter within a minute.
NextGated ==
    \/ \E route \in {UploadRoute, UploadMobileRoute},
          sessionToken \in {Undefined, InvalidValue, nextUuid - 1},
          body \in Bodies :
        /\ MayRequest(route)
        /\ GatedRequest(route, GatedClient, sessionToken, body)
        /\ UNCHANGED hubVars
    \/ \E route \in {QrTokenRoute, QrCodeRoute} :
        /\ MayRequest(route)
        /\ GatedRequest(route, GatedClient, Undefined, "complete")
        /\ UNCHANGED hubVars
    \/ \E outcome \in {Fulfilled, NotInitialized} : GatedSettle(outcome)
    \/ EditorRequest /\ UNCHANGED hubVars
    \/ GatedPairing

\* ----------------------------------------------- useWebSocket (the client)

\* options.reconnectionDelay, in ms (the default)
reconnectionDelay == 1000

\* The hook before its first effect: no socket, no timer.  created holds the
\* state of every socket the hook has made, in order; socketRef and
\* reconnectTimeoutRef are 0 for null, else the socket referred to and the
\* socket whose 'disconnect' handler set the timer; timers the timers that
\* are pending, scheduled every timer set, with the count it was computed
\* from.  lost: the connection was lost without a call of disconnect() and
\* has not been regained; stopped: disconnect() was called and connect() has
\* not been called since.
InitClient ==
    client = [status |-> "disconnected", created |-> <<>>, socketRef |-> 0,
              reconnectTimeoutRef |-> 0, reconnectCount |-> 0, timers |-> {},
              scheduled |-> <<>>, reported |-> FALSE, lost |-> FALSE,
              stopped |-> FALSE]

\* connect(): nothing if the current socket is connected; else a new socket
\* is made by io(url, { reconnection: false }) and becomes the current one.
connect(c) ==
    IF c.socketRef # 0 /\ c.created[c.socketRef] = "connected"
    THEN c
    ELSE [c EXCEPT !.status = "connecting",
                   !.created = Append(@, "connecting"),
                   !.socketRef = Len(c.created) + 1]

\* socket.on('disconnect'): the handler of socket i.
onDisconnect(c, i) ==
    LET closed == [c EXCEPT !.status = "disconnected", !.created[i] = "closed"]
    IN IF c.reconnectCount < reconnectionAttempts
       THEN [closed EXCEPT
                !.timers = @ \cup {i},
                !.reconnectTimeoutRef = i,
                !.scheduled = Append(@,
                    [count |-> c.reconnectCount,
                     delay |-> reconnectionDelay * Pow2(c.reconnectCount)])]
       ELSE [closed EXCEPT !.reported = TRUE]

\* disconnect(): the pending timer is cleared first; socket.disconnect() then
\* closes the socket and, if it was connected, emits 'disconnect' (reason
\* 'io client disconnect') before it returns, so that the handler above runs
\* inside the call.
disconnect(c) ==
    LET cleared == IF c.reconnectTimeoutRef # 0
                   THEN [c EXCEPT !.timers = @ \ {c.reconnectTimeoutRef},
                                  !.reconnectTimeoutRef = 0]
                   ELSE c
        released ==
            IF cleared.socketRef = 0 THEN cleared
            ELSE [(IF cleared.created[cleared.socketRef] = "connected"
                   THEN onDisconnect(cleared, cleared.socketRef)
                   ELSE [cleared EXCEPT !.created[cleared.socketRef] = "closed"])
                  EXCEPT !.socketRef = 0]
    IN [released EXCEPT !.status = "disconnected", !.reconnectCount = 0]

\* The component calls connect(): the effect of the mount, or the user.
ClientConnect ==
    /\ Len(client.created) < MaxClientSockets
    /\ client' = [connect(client) EXCEPT !.stopped = FALSE]

\* The component calls disconnect(): the user, or the cleanup of the effect.
ClientDisconnect ==
    client' = [disconnect(client) EXCEPT !.stopped = TRUE, !.lost = FALSE]

\* socket.on('connect') of socket i: the server has admitted it.
SocketConnect(i) ==
    /\ client.created[i] = "connecting"
    /\ client' = [client EXCEPT !.created[i] = "connected",
                                !.status = "connected",
                                !.reconnectCount = 0,
                                !.lost = FALSE]

\* socket.on('connect_error') of socket i: the server cannot be reached or
\* refuses the handshake.  With reconnection: false the socket makes no
\* further attempt, and it emits no 'disconnect'.
SocketConnectError(i) ==
    /\ client.created[i] = "connecting"
    /\ client' = [client EXCEPT !.created[i] = "closed", !.status = "error"]

\* The connection of socket i is lost (the server closes it, or the
\* transport fails): the socket emits 'disconnect'.
SocketDisconnect(i) ==
    /\ client.created[i] = "connected"
    /\ client' = [onDisconnect(client, i) EXCEPT !.lost = TRUE]

\* The callback of the timer set by the 'disconnect' handler of socket i.
ReconnectTimeout(i) ==
    /\ i \in client.timers
    /\ Len(client.created) < MaxClientSockets
    /\ client' = connect([client EXCEPT !.timers = @ \ {i},
                                        !.reconnectCount = @ + 1])

NextClient ==
    \/ ClientConnect
    \/ ClientDisconnect
    \/ \E i \in DOMAIN client.created : SocketConnect(i)
    \/ \E i \in DOMAIN client.created : SocketConnectError(i)
    \/ \E i \in DOMAIN client.created : SocketDisconnect(i)
    \/ \E i \in DOMAIN client.created : ReconnectTimeout(i)

\* ------------------------------------------------ UploadQueue (the client)

\* private maxConcurrent: number = 3
maxConcurrent == 3

\* new UploadQueue().  A task is [n, id]: it is the n-th task added, and id
\* is its id field.  running holds the tasks whose uploadImage has been
\* called and has not settled; started every task that was started, in that
\* order; failed the tasks whose upload ended with an error; added counts
\* the tasks added; clashed tells that a task was added with the id of a task that was queued
\* or in flight.
InitUploadQueue ==
    uploadQueue = [queue |-> <<>>, activeUploads |-> {}, running |-> {},
                   started |-> <<>>, failed |-> {}, added |-> 0,
                   clashed |-> FALSE]

\* As processQueue, with the test of the loop as size <= maxConcurrent.
RECURSIVE processQueue_oneMore(_)
processQueue_oneMore(q) ==
    IF Cardinality(q.activeUploads) <= maxConcurrent /\ q.queue # <<>>
    THEN LET task == Head(q.queue) IN
         processQueue_oneMore([q EXCEPT !.queue = Tail(@),
                                 !.activeUploads = @ \cup {task.id},
                                 !.running = @ \cup {task},
                                 !.started = Append(@, task)])
    ELSE q

\* processQueue(): while fewer than maxConcurrent ids are active and a task
\* is queued, the first task is taken from the queue, its id is added to
\* activeUploads and uploadImage is called with it.
RECURSIVE processQueue(_)
processQueue(q) ==
    IF Cardinality(q.activeUploads) < maxConcurrent /\ q.queue # <<>>
    THEN LET task == Head(q.queue) IN
         processQueue([q EXCEPT !.queue = Tail(@),
                                 !.activeUploads = @ \cup {task.id},
                                 !.running = @ \cup {task},
                                 !.started = Append(@, task)])
    ELSE q

\* The ids of the tasks that are queued or in flight.
PendingIds ==
    {uploadQueue.queue[i].id : i \in DOMAIN uploadQueue.queue}
        \cup {task.id : task \in uploadQueue.running}

\* addTask(task)
AddTask(id) ==
    LET task == [n |-> uploadQueue.added + 1, id |-> id] IN
    /\ uploadQueue.added < MaxTasks
    /\ uploadQueue' =
            processQueue([uploadQueue EXCEPT
                !.queue = Append(@, task),
                !.added = @ + 1,
                !.clashed = @ \/ id \in PendingIds])

\* uploadImage(task) settles, having called onSuccess or onError, and the
\* callback of finally runs: the id is removed and the queue is processed.
UploadFinishes(task, result) ==
    /\ task \in uploadQueue.running
    /\ uploadQueue' =
            processQueue([uploadQueue EXCEPT
                !.running = @ \ {task},
                !.failed = IF result = "error" THEN @ \cup {task.n} ELSE @,
                !.activeUploads = @ \ {task.id}])

\* Some upload in flight settles.
SomeUploadFinishes ==
    \E task \in uploadQueue.running, result \in {"success", "error"} :
        UploadFinishes(task, result)

\* The ids a caller gives the task it adds: an id of its own, or the id of
\* the first task.
NextQueue ==
    \/ \E id \in {1, uploadQueue.added + 1} : AddTask(id)
    \/ SomeUploadFinishes

\* ----------------------------------------------------- POST /api/articles

\* req.body: articles an array of articles, or no array.
ArticleBodies ==
    {[isArray |-> TRUE, articles |-> a] :
        a \in {<<>>, <<"a1">>, <<"a2", "a1">>}}
        \cup {[isArray |-> FALSE, articles |-> <<>>]}

\* The handler registered first (line 342): the list after it, the status of
\* its response, whether it called emitArticleList, whether it called next().
postArticles(list, body) ==
    IF ~body.isArray
    THEN [articleList |-> list, status |-> 400, emits |-> FALSE, next |-> FALSE]
    ELSE [articleList |-> body.articles, status |-> 200, emits |-> FALSE,
          next |-> FALSE]

\* The handler registered second (line 481), after the WebSocketService has
\* been built.
postArticlesEmit(list, body) ==
    IF ~body.isArray
    THEN [articleList |-> list, status |-> 400, emits |-> FALSE, next |-> FALSE]
    ELSE [articleList |-> body.articles, status |-> 200, emits |-> TRUE,
          next |-> FALSE]

\* The handlers Express holds for POST /api/articles, in the order of their
\* registration.
ArticlesPostStack == <<"postArticles", "postArticlesEmit">>

\* Express tries the handlers of a route in the order of registration: a
\* handler is reached only when every handler before it has called next().
RECURSIVE dispatch(_, _, _)
dispatch(stack, list, body) ==
    IF stack = <<>>
    THEN [articleList |-> list, status |-> 404, emits |-> FALSE, next |-> FALSE]
    ELSE LET r == IF Head(stack) = "postArticles"
                  THEN postArticles(list, body)
                  ELSE postArticlesEmit(list, body)
         IN IF r.next THEN dispatch(Tail(stack), r.articleList, body) ELSE r

\* createServer: the list is empty and no request has been made.
InitArticles ==
    /\ articleList = <<>>
    /\ articlePost = [status |-> 0, isArray |-> FALSE, articles |-> <<>>,
                      broadcast |-> FALSE, recipients |-> {}]

\* POST /api/articles with a body.
PostArticles(body) ==
    LET r == dispatch(ArticlesPostStack, articleList, body) IN
    /\ articleList' = r.articleList
    /\ articlePost' = [status |-> r.status, isArray |-> body.isArray,
                       articles |-> body.articles, broadcast |-> r.emits,
                       recipients |-> IF r.emits THEN Connected ELSE {}]
    /\ IF r.emits
       THEN /\ Len(emitted) < MaxEmits
            /\ emitted' = Append(emitted, Connected)
            /\ wire' = ioEmit(sockets, wire, Len(emitted) + 1)
       ELSE UNCHANGED <<emitted, wire>>
    /\ UNCHANGED <<authVars, requests, sockets, inbox, client, uploadQueue,
                   rlPlain, gates>>

\* The article list is posted while clients connect and disconnect.
NextArticles ==
    \/ \E body \in ArticleBodies : PostArticles(body)
    \/ \E s \in SocketIds, token \in {Undefined, EmptyString, InvalidValue} :
        Handshake(s, token) /\ UNCHANGED tailVars
    \/ \E s \in SocketIds : Disconnect(s) /\ UNCHANGED tailVars

\* What createServer adds to the state after the routes of the first
\* specifications.
InitTail ==
    InitArticles /\ InitClient /\ InitUploadQueue /\ InitPlain /\ InitGates

\* --------------------------------------------------------------- shutdown

SignalIds == 1..MaxSignals

\* The process after main(): no shutdown() call has been made.  A call of
\* shutdown() is "stopping" while it awaits NgrokManager.stop() and "closing"
\* while it awaits shutdownServer(); timeout tells whether the setTimeout of
\* shutdownServer is armed for it; invalidated holds the tokens the calls of
\* shutdownServer found in the store.
InitProcess ==
    /\ process = [shutdowns |-> [i \in SignalIds |-> "none"],
                  timeout |-> [i \in SignalIds |-> FALSE],
                  invalidated |-> {},
                  exited |-> FALSE, code |-> 0]
    /\ connections = 0

\* io.close(): every connected socket is disconnected.
ioClose(socks) ==
    [s \in SocketIds |->
        IF socks[s].state = "connected"
        THEN [NoSocket EXCEPT !.state = "disconnected"]
        ELSE socks[s]]

\* As shutdownServer, without the setTimeout of lines 107-110.
shutdownServer_noTimeout(store, socks) ==
    [store |-> destroy(invalidateAllTokens(store)),
     cleanupInterval |-> FALSE,
     sockets |-> ioClose(socks),
     timeout |-> FALSE]

\* shutdownServer(server, io, authService) up to the promise it returns: the
\* token store, the interval of the AuthService and the sockets after it, and
\* whether the forced-close timer is armed.
shutdownServer(store, socks) ==
    [store |-> destroy(invalidateAllTokens(store)),
     cleanupInterval |-> FALSE,
     sockets |-> ioClose(socks),
     timeout |-> TRUE]

Closing == {i \in SignalIds : process.shutdowns[i] = "closing"}
Stopping == {i \in SignalIds : process.shutdowns[i] = "stopping"}

\* The calls of shutdown() in the set resolved leave NgrokManager.stop() and
\* call shutdownServer.
EnterShutdownServer(resolved) ==
    LET r == shutdownServer(tokens, sockets) IN
    /\ tokens' = r.store
    /\ cleanupInterval' = r.cleanupInterval
    /\ sockets' = r.sockets
    /\ wire' = [s \in SocketIds |-> IF s \in Connected THEN <<>> ELSE wire[s]]
    /\ inbox' = [s \in SocketIds |-> IF s \in Connected THEN <<>> ELSE inbox[s]]
    /\ last' = Call("invalidateAllTokens", 0, FALSE, Removed(tokens, r.store))
    /\ process' = [process EXCEPT
            !.shutdowns = [i \in SignalIds |->
                IF i \in resolved THEN "closing" ELSE process.shutdowns[i]],
            !.timeout = [i \in SignalIds |->
                IF i \in resolved THEN r.timeout ELSE process.timeout[i]],
            !.invalidated = process.invalidated \cup DOMAIN tokens]
    /\ UNCHANGED <<now, ticks, nextUuid, issued, requests, emitted, rlVars,
                   connections, retry, call>>

\* SIGTERM, SIGINT, an uncaught exception or an unhandled rejection: the
\* process calls shutdown().  Without an ngrok process NgrokManager.stop()
\* returns at once and shutdownServer is called; with one, it sends SIGTERM
\* and waits.
Signal(i) ==
    /\ ~process.exited
    /\ process.shutdowns[i] = "none"
    /\ \A j \in SignalIds : j < i => process.shutdowns[j] # "none"
    /\ IF ngrokProcess
       THEN /\ process' = [process EXCEPT !.shutdowns[i] = "stopping"]
            /\ UNCHANGED <<authVars, requests, hubVars, rlVars, connections, retry, call>>
       ELSE EnterShutdownServer({i})
    /\ UNCHANGED ngrokProcess

\* The 'exit' event of the ngrok process, after it was sent a signal: every
\* call waiting in NgrokManager.stop() is resolved.
NgrokExit ==
    /\ ~process.exited
    /\ ngrokProcess
    /\ \E i \in SignalIds : process.shutdowns[i] # "none"
    /\ ngrokProcess' = FALSE
    /\ IF Stopping # {}
       THEN EnterShutdownServer(Stopping)
       ELSE UNCHANGED <<authVars, requests, hubVars, rlVars, process,
                        connections, retry, call>>

\* The killTimeout of NgrokManager.stop() fires after 5 seconds: SIGKILL, and
\* the call is resolved.
KillTimeout(i) ==
    /\ ~process.exited
    /\ process.shutdowns[i] = "stopping"
    /\ EnterShutdownServer({i})
    /\ UNCHANGED ngrokProcess

\* process.exit(code)
Exit(code) ==
    /\ process' = [process EXCEPT !.exited = TRUE, !.code = code]
    /\ UNCHANGED <<authVars, requests, hubVars, rlVars, ngrokProcess,
                   connections, retry, call>>

\* The callback of server.close runs once the last connection has ended;
\* shutdown() goes on to process.exit(0), or to process.exit(1) when the
\* callback was given an error.
ServerClosed(i) ==
    /\ ~process.exited
    /\ process.shutdowns[i] = "closing"
    /\ connections = 0
    /\ \E code \in {0, 1} : Exit(code)

\* The setTimeout of shutdownServer fires after 10 seconds: the promise is
\* rejected and shutdown() goes on to process.exit(1).
ForcedTimeout(i) ==
    /\ ~process.exited
    /\ process.shutdowns[i] = "closing"
    /\ process.timeout[i]
    /\ Exit(1)

\* A peer opens an HTTP connection; a closed server accepts none.
PeerConnects ==
    /\ ~process.exited
    /\ Closing = {}
    /\ connections < MaxPeers
    /\ connections' = connections + 1
    /\ UNCHANGED <<authVars, requests, hubVars, rlVars, process, ngrokProcess,
                   retry, call>>

\* A peer ends its connection.
PeerCloses ==
    /\ ~process.exited
    /\ connections > 0
    /\ connections' = connections - 1
    /\ UNCHANGED <<authVars, requests, hubVars, rlVars, process, ngrokProcess,
                   retry, call>>

\* POST /api/auth/qr-token arrives over an open connection.
PostQrToken ==
    /\ ~process.exited
    /\ connections > 0
    /\ GenerateQRToken
    /\ UNCHANGED <<requests, hubVars, rlVars, sdVars, retry, call>>

\* POST /api/auth/session with a stored token arrives over an open
\* connection.
PostSession(qrToken) ==
    /\ ~process.exited
    /\ connections > 0
    /\ ValidateQRTokenAndIssueSession(qrToken)
    /\ UNCHANGED <<requests, hubVars, rlVars, sdVars, retry, call>>

\* A realtime client connects; after io.close() none can.
Connect(s, token) ==
    /\ ~process.exited
    /\ Closing = {}
    /\ Handshake(s, token)
    /\ UNCHANGED <<rlVars, sdVars, retry, call>>

NextShutdown ==
    \/ \E i \in SignalIds : Signal(i)
    \/ NgrokExit
    \/ \E i \in SignalIds : KillTimeout(i)
    \/ \E i \in SignalIds : ServerClosed(i)
    \/ \E i \in SignalIds : ForcedTimeout(i)
    \/ PeerConnects
    \/ PeerCloses
    \/ PostQrToken
    \/ \E qrToken \in DOMAIN tokens : PostSession(qrToken)
    \/ \E s \in SocketIds, token \in DOMAIN tokens \cup {Undefined} :
        Connect(s, token)

\* ------------------------------------------------------- specifications

Init ==
    /\ InitAuth /\ InitHttp /\ InitHub /\ InitLimiter
    /\ InitProcess /\ ngrokProcess = FALSE
    /\ InitRetry /\ InitApi
    /\ InitTail

\* The AuthService under every sequence of calls of its methods.
Next == NextAuth /\ UNCHANGED <<requests, hubVars, rlVars, restVars>>

Spec == Init /\ [][Next]_vars

\* The server answering POST /api/auth/session requests that arrive in any
\* order.
SpecHttp == Init /\ [][NextHttp /\ UNCHANGED <<rlVars, restVars>>]_vars

\* The realtime hub: clients pair, connect and disconnect while time passes.
SpecHub == Init /\ [][NextHub /\ UNCHANGED <<rlVars, restVars>>]_vars

\* The realtime hub broadcasting to the clients that pair, connect and
\* disconnect, within the lifetime of their tokens.
SpecBroadcast == Init /\ [][NextBroadcast /\ UNCHANGED <<rlVars, restVars>>]_vars

\* The AuthService with the timer of its constructor: while the interval is
\* armed, Node runs its callback again and again.
NextSweep ==
    \/ \E d \in TickSteps : Tick(d)
    \/ GenerateQRToken
    \/ \E qrToken \in DOMAIN tokens : ValidateQRTokenAndIssueSession(qrToken)
    \/ \E sessionToken \in DOMAIN tokens : ValidateSessionToken(sessionToken)
    \/ CleanupTimer
    \/ Destroy

SpecSweep ==
    /\ Init
    /\ [][NextSweep /\ UNCHANGED <<requests, hubVars, rlVars, restVars>>]_vars
    /\ WF_vars(CleanupTimer /\ UNCHANGED <<requests, hubVars, rlVars, restVars>>)

\* Pairings: QR codes are issued, regenerated and exchanged while time
\* passes.
NextPairing ==
    \/ \E d \in {QrTtl, SessionTtl} : Tick(d)
    \/ GenerateQRTokenUpTo(MaxPairingUuid)
    \/ \E qrToken \in DOMAIN tokens :
        ValidateQRTokenAndIssueSessionUpTo(qrToken, MaxPairingUuid)
    \/ RegenerateQRCodeUpTo(MaxPairingUuid)

SpecPairing ==
    Init /\ [][NextPairing /\ UNCHANGED <<requests, hubVars, rlVars, restVars>>]_vars

\* Every method of the AuthService over several pairings: exchanges of the
\* tokens of the store, the other methods called with the latest uuid drawn
\* (a QR token or a session token, stored or deleted; at first a string that
\* is no token), and a step of the clock that outlives a QR token.
NextMint ==
    \/ ticks < MaxMintTicks /\ Tick(QrTtl + 1)
    \/ GenerateQRTokenUpTo(MaxPairingUuid)
    \/ \E qrToken \in DOMAIN tokens :
        ValidateQRTokenAndIssueSessionUpTo(qrToken, MaxPairingUuid)
    \/ ValidateSessionToken(nextUuid - 1)
    \/ ExtendSessionToken(nextUuid - 1)
    \/ InvalidateQRToken(nextUuid - 1)
    \/ RegenerateQRCodeUpTo(MaxPairingUuid)
    \/ InvalidateAllTokens
    \/ Destroy
    \/ CleanupTimer

SpecMint ==
    Init /\ [][NextMint /\ UNCHANGED <<requests, hubVars, rlVars, restVars>>]_vars

\* The realtime hub broadcasting to the clients it has admitted while their
\* session tokens expire or are invalidated, up to the shutdown of the
\* server.
NextAdmitted ==
    \/ /\ Closing = {}
       /\ \/ Tick(SessionTtl + 1)
          \/ GenerateQRToken
          \/ \E qrToken \in DOMAIN tokens :
                ValidateQRTokenAndIssueSession(qrToken)
          \/ InvalidateAllTokens
       /\ UNCHANGED <<requests, hubVars, rlVars, sdVars, retry, call>>
    \/ \E s \in 1..MaxAdmitted, token \in DOMAIN tokens : Connect(s, token)
    \/ /\ Closing = {}
       /\ \/ \E s \in SocketIds : Disconnect(s)
          \/ emitImageInsert
          \/ \E s \in SocketIds : Deliver(s)
       /\ UNCHANGED <<rlVars, sdVars, retry, call>>
    \/ \E i \in SignalIds : Signal(i)

SpecAdmitted == Init /\ [][NextAdmitted /\ UNCHANGED tailVars]_vars

\* One rate limiter under requests from clients that reach it directly, with
\* time passing, its cleanup timer and calls of reset.
SpecLimiter ==
    Init /\ [][NextLimiter /\ UNCHANGED <<authVars, requests, hubVars, restVars>>]_vars

\* One rate limiter under requests that come through proxies, within one
\* window.
SpecForwarded ==
    Init /\ [][NextForwarded /\ UNCHANGED <<authVars, requests, hubVars, restVars>>]_vars

\* The process from main() to its exit.  Node runs a timer that is armed: the
\* kill timer of NgrokManager.stop() and the forced-close timer of
\* shutdownServer fire unless they are cleared; no peer has to end its
\* connection.
InitShutdown ==
    /\ InitAuth /\ InitHttp /\ InitHub /\ InitLimiter
    /\ InitProcess /\ ngrokProcess \in BOOLEAN
    /\ InitRetry /\ InitApi
    /\ InitTail

SpecShutdown ==
    /\ InitShutdown
    /\ [][NextShutdown /\ UNCHANGED tailVars]_vars
    /\ WF_vars((\E i \in SignalIds : KillTimeout(i)) /\ UNCHANGED tailVars)
    /\ WF_vars((\E i \in SignalIds : ForcedTimeout(i)) /\ UNCHANGED tailVars)

\* One call of withRetry, with an operation that settles each time it is
\* invoked and the timers of sleep firing.
SpecRetry ==
    /\ Init
    /\ [][NextRetry /\ UNCHANGED <<authVars, requests, hubVars, rlVars, sdVars, call, tailVars>>]_vars
    /\ WF_vars(RetryProgress /\ UNCHANGED <<authVars, requests, hubVars, rlVars, sdVars, call, tailVars>>)

\* A request with any kind of credentials to a route of images, articles or
\* configuration, at any moment while clients pair and time passes.
SpecApi == Init /\ [][NextApi /\ UNCHANGED tailVars]_vars

\* POST /api/articles while clients of the realtime hub come and go.
SpecArticles ==
    Init /\ [][NextArticles /\ UNCHANGED <<rlVars, sdVars, retry, call>>]_vars

\* One realtime client: the component connects and disconnects, the server
\* and the network admit, refuse and drop its sockets, its timers fire.
SpecClient ==
    Init /\ [][NextClient /\ UNCHANGED <<authVars, requests, hubVars, rlVars,
                                         sdVars, retry, call, articleList,
                                         articlePost, uploadQueue,
                                         rlPlain, gates>>]_vars

\* The upload queue of one client: tasks are added, and every upload in
\* flight settles, the fetch of uploadImage being answered or failing.
SpecQueue ==
    /\ Init
    /\ [][NextQueue /\ UNCHANGED <<authVars, requests, hubVars, rlVars, sdVars,
                                   retry, call, articleList, articlePost,
                                   client, rlPlain, gates>>]_vars
    /\ WF_vars(SomeUploadFinishes
                 /\ UNCHANGED <<authVars, requests, hubVars, rlVars, sdVars,
                                retry, call, articleList, articlePost, client,
                                rlPlain, gates>>)

\* Two rate limiters given the same requests at the same times; the timer
\* of the first runs its cleanup at any moment, the second is never cleaned.
SpecCleanup ==
    Init /\ [][NextCleanup /\ UNCHANGED <<authVars, requests, hubVars, sdVars,
                                          retry, call, articleList,
                                          articlePost, client,
                                          uploadQueue, gates>>]_vars

\* The rate-limited routes of the server under the requests of one client
\* to the routes of one of its limiters.
InitGated ==
    /\ InitAuth /\ InitHttp /\ InitHub /\ InitLimiter
    /\ InitProcess /\ ngrokProcess = FALSE
    /\ InitRetry /\ InitApi
    /\ InitArticles /\ InitClient /\ InitUploadQueue /\ InitPlain
    /\ \E routes \in RoutePairs : InitGatesFor(routes)

SpecGated ==
    InitGated /\ [][NextGated /\ UNCHANGED <<requests, rlVars, sdVars, retry,
                                        articleList, articlePost, client,
                                        uploadQueue, rlPlain>>]_vars

\* ------------------------------------------------------------- properties

ExchangeOp == "validateQRTokenAndIssueSession"
ValidateOp == "validateSessionToken"

\* The session values minted from the QR token q.
SessionsFrom(q) ==
    {s \in DOMAIN issued : issued[s].type = "session" /\ issued[s].from = q}

\* q is in the store, of type qr, and its expiresAt has not passed.
LiveQr(q) ==
    /\ q \in DOMAIN tokens
    /\ tokens[q].type = "qr"
    /\ ~(tokens[q].expiresAt < now)

\* What the two validations would return if called now.
ExchangeNow(q) == validateQRTokenAndIssueSession(tokens, q, nextUuid, now)
ValidateNow(v) == validateSessionToken(tokens, v, now)

\* C1: a QR token yields a session at most once: a call made while the token
\* is live and unexpired succeeds, a successful call consumes the token, and
\* every call after it returns null.
C1_ExchangeAtMostOnce ==
    /\ \A q \in Uuids :
        /\ Cardinality(SessionsFrom(q)) <= 1
        /\ LiveQr(q) => /\ ExchangeNow(q).result # Null
                        /\ SessionsFrom(q) = {}
        /\ SessionsFrom(q) # {} => /\ q \notin DOMAIN tokens
                                   /\ ExchangeNow(q).result = Null
    /\ last.op = ExchangeOp /\ last.ok =>
        /\ SessionsFrom(last.arg) = {last.value}
        /\ last.arg \notin DOMAIN tokens
    /\ last.op = ExchangeOp /\ ~last.ok => ~LiveQr(last.arg)

\* A second exchange of a consumed QR token has just returned null.
C1_Witness ==
    /\ last.op = ExchangeOp
    /\ ~last.ok
    /\ SessionsFrom(last.arg) # {}
    /\ \E s \in SessionsFrom(last.arg) : ValidateNow(s).result

\* C3: validateSessionToken(v) is true exactly when the store holds v as a
\* session whose expiresAt has not passed; it is false for every session at
\* every time after its expiresAt, accessed and swept or not, and the call
\* that finds an expired session deletes it.
C3_ValidateSession ==
    /\ \A v \in Presentable :
        ValidateNow(v).result <=>
            /\ v \in DOMAIN tokens
            /\ tokens[v].type = "session"
            /\ now <= tokens[v].expiresAt
    /\ \A s \in DOMAIN issued :
        issued[s].type = "session" /\ now > issued[s].expiresAt =>
            /\ ~ValidateNow(s).result
            /\ s \notin DOMAIN ValidateNow(s).store
    /\ last.op = ValidateOp =>
        /\ last.ok => /\ last.arg \in DOMAIN tokens
                      /\ issued[last.arg].type = "session"
                      /\ now <= issued[last.arg].expiresAt
        /\ ~last.ok => \/ last.arg \notin DOMAIN tokens
                       \/ tokens[last.arg].type = "qr"

\* An expired session that was still in the store has just been refused and
\* deleted by the call.
C3_Witness ==
    /\ last.op = ValidateOp
    /\ ~last.ok
    /\ last.value = 1
    /\ last.arg \in DOMAIN issued
    /\ issued[last.arg].type = "session"
    /\ now > issued[last.arg].expiresAt

\* C4: an exchange of a QR token whose expiresAt has passed returns null,
\* mints nothing and deletes the token; an exchange of an absent value returns
\* null and leaves the store as it was.
C4_ExchangeExpiredOrAbsent ==
    [][\A q \in Presentable :
        last'.op = ExchangeOp /\ last'.arg = q =>
            /\ (q \in DOMAIN tokens /\ tokens[q].type = "qr"
                    /\ tokens[q].expiresAt < now) =>
                /\ ~last'.ok
                /\ tokens' = MapDelete(tokens, q)
                /\ issued' = issued
                /\ nextUuid' = nextUuid
            /\ q \notin DOMAIN tokens =>
                /\ ~last'.ok
                /\ tokens' = tokens
                /\ issued' = issued
                /\ nextUuid' = nextUuid]_vars

\* The exchange of an expired QR token has just returned null and removed it.
C4_Witness ==
    /\ last.op = ExchangeOp
    /\ ~last.ok
    /\ last.value = 1
    /\ last.arg \in DOMAIN issued
    /\ issued[last.arg].type = "qr"
    /\ issued[last.arg].expiresAt < now

C6_InvalidateAll ==
    last.op \in {"invalidateAllTokens", "destroy"} =>
        /\ DOMAIN tokens = {}
        /\ \A v \in DOMAIN issued :
            /\ ~ValidateNow(v).result
            /\ ExchangeNow(v).result = Null

\* invalidateAllTokens has just removed a session that had not expired.
C6_Witness ==
    /\ last.op \in {"invalidateAllTokens", "destroy"}
    /\ last.value >= 1
    /\ \E s \in DOMAIN issued :
        issued[s].type = "session" /\ now <= issued[s].expiresAt

\* The answered requests that exchanged q for a session.
Granted(q) ==
    {r \in RequestIds : /\ requests[r].state = "answered"
                        /\ requests[r].qrToken = q
                        /\ requests[r].status = 200}

\* C2: of the exchange requests for one QR token, however they arrive and
\* interleave, at most one is answered with a session; once a request has
\* passed the validity check the QR token is gone from the store, so no
\* other request finds it.
C2_InterleavedExchange ==
    \A q \in Uuids :
        /\ Cardinality(Granted(q)) <= 1
        /\ \A r \in Granted(q) :
            /\ q \notin DOMAIN tokens
            /\ SessionsFrom(q) = {requests[r].sessionToken}
        /\ SessionsFrom(q) # {} => q \notin DOMAIN tokens

\* Two requests for the same QR token were in flight together; one got the
\* session and the other 401.
C2_Witness ==
    \E r1, r2 \in RequestIds :
        /\ r1 # r2
        /\ requests[r1].qrToken = requests[r2].qrToken
        /\ requests[r1].overlapped /\ requests[r2].overlapped
        /\ requests[r1].state = "answered" /\ requests[r1].status = 200
        /\ requests[r2].state = "answered" /\ requests[r2].status = 401

\* C7: a handshake that presents a token (a value the middleware does not
\* take for a missing one) is admitted exactly when validateSessionToken of it
\* is true at that moment; otherwise it is refused with the error
\* 'Authentication failed...' and its socket is never among the connected
\* ones, neither then nor later.
C7_TokenAdmission ==
    [][/\ \A s \in SocketIds, token \in HandshakeTokens :
            Handshake(s, token) /\ ~Falsy(token) =>
                /\ sockets'[s].state = "connected" <=> ValidateNow(token).result
                /\ ValidateNow(token).result =>
                    /\ sockets'[s].authenticated = "true"
                    /\ sockets'[s].dataToken = token
                /\ ~ValidateNow(token).result =>
                    /\ sockets'[s].state = "refused"
                    /\ sockets'[s].error = AuthenticationFailed
                    /\ Connected' = Connected
       /\ \A s \in SocketIds :
            /\ sockets[s].state = "refused" => sockets'[s] = sockets[s]
            /\ sockets'[s].state = "disconnected" =>
                sockets[s].state \in {"connected", "disconnected"}]_vars

\* One connection was admitted with a session token, and the handshake that
\* has just presented an expired session was refused.
C7_Witness ==
    /\ \E s1, s2 \in SocketIds :
        /\ sockets[s1].state = "connected"
        /\ sockets[s1].authenticated = "true"
        /\ sockets[s2].state = "refused"
        /\ sockets[s2].error = AuthenticationFailed
    /\ last.op = ValidateOp
    /\ ~last.ok
    /\ last.value = 1

C9_NoTokenRejected ==
    \A s \in Connected : sockets[s].handshakeToken # Undefined

\* The elements of a sequence.
Range(seq) == {seq[i] : i \in 1..Len(seq)}

\* The broadcasts handed to the connection of s: received or on their way.
HandedTo(s) == Range(inbox[s]) \cup Range(wire[s])

\* C10: a broadcast is handed to exactly the connections that were admitted
\* when the hub issued it: every one of them that is still connected has
\* received it or has it on its way, a client receives nothing after its
\* disconnect, and a socket that was disconnected, refused or not yet
\* connected at that moment never gets it.
C10_BroadcastRecipients ==
    /\ \A b \in 1..Len(emitted), s \in SocketIds :
        /\ s \in emitted[b] /\ sockets[s].state = "connected" => b \in HandedTo(s)
        /\ b \in HandedTo(s) => s \in emitted[b]
    /\ \A s \in SocketIds :
        /\ sockets[s].state \in {"none", "refused"} =>
            wire[s] = <<>> /\ inbox[s] = <<>>
        /\ sockets[s].state = "disconnected" => wire[s] = <<>> /\ inbox[s] = <<>>

\* A broadcast was received by an authenticated connection, and not by the
\* socket that had been refused or had disconnected before it was issued.
C10_Witness ==
    \E b \in 1..Len(emitted), s1, s2 \in SocketIds :
        /\ sockets[s1].state = "connected"
        /\ sockets[s1].authenticated = "true"
        /\ b \in Range(inbox[s1])
        /\ sockets[s2].state \in {"refused", "disconnected"}
        /\ s2 \notin emitted[b]
        /\ inbox[s2] = <<>>

\* C11: a connection receives broadcasts in the order the hub issued them:
\* of two broadcasts it has received, the one issued first was received
\* first.
C11_IssueOrder ==
    \A s \in SocketIds : \A i, j \in 1..Len(inbox[s]) :
        inbox[s][i] < inbox[s][j] => i < j

\* A connection has received two broadcasts.
C11_Witness ==
    \E s \in Connected : Len(inbox[s]) >= 2 /\ inbox[s][1] # inbox[s][2]

NoDuplicate(seq) == \A i, j \in 1..Len(seq) : seq[i] = seq[j] => i = j

\* C12: a connection is handed each broadcast at most once, and only in the
\* step that issues it, if the socket is connected at that step: nothing is
\* handed over at a handshake or at any later step, so a client that connects
\* or reconnects after a broadcast never receives it.
C12_AtMostOnceNoReplay ==
    [][\A s \in SocketIds :
        /\ NoDuplicate(inbox'[s] \o wire'[s])
        /\ (Range(inbox'[s]) \cup Range(wire'[s])) \ HandedTo(s) \subseteq
              IF Len(emitted') = Len(emitted) + 1 /\ s \in Connected
              THEN {Len(emitted')} ELSE {}]_vars

\* A client connected after the first broadcast and has received the second
\* one only.
C12_Witness ==
    \E s \in Connected :
        /\ Len(emitted) >= 2
        /\ s \notin emitted[1]
        /\ s \in emitted[2]
        /\ inbox[s] = <<2>>
        /\ wire[s] = <<>>

\* C13: the step in which a connection disconnects takes it out of the
\* connected set and leaves the token store as it was: a session token the
\* connection was admitted with, stored and not expired, still validates and
\* still admits a handshake.
C13_DisconnectKeepsTokens ==
    [][\A s \in SocketIds :
        sockets[s].state = "connected" /\ sockets'[s].state # "connected" =>
            /\ s \notin Connected'
            /\ tokens' = tokens
            /\ LET t == sockets[s].dataToken IN
                t \in DOMAIN tokens /\ ~Expired(tokens[t], now) =>
                    /\ validateSessionToken(tokens', t, now').result
                    /\ setupMiddleware(tokens', t, now').admitted]_vars

\* After the disconnect of an authenticated connection, a new connection was
\* admitted with the session token, the only one ever minted.
C13_Witness ==
    \E s1, s2 \in SocketIds :
        /\ s1 < s2
        /\ sockets[s1].state = "disconnected"
        /\ sockets[s2].state = "connected"
        /\ sockets[s2].authenticated = "true"
        /\ Cardinality({t \in DOMAIN issued : issued[t].type = "session"}) = 1
        /\ \A o \in SocketIds : o <= s2 => sockets[o].error = ""
        /\ last.op = "validateSessionToken" /\ last.ok

\* ------------------------------------------------- RateLimiter properties

\* The requests of the limiter's history.
RequestCalls == {k \in 1..Len(rlLog) : rlLog[k].op = "request"}

\* The request that opened the window request k was counted in.
WindowStart(k) ==
    CHOOSE j \in RequestCalls :
        /\ j <= k /\ rlLog[j].id = rlLog[k].id /\ rlLog[j].fresh
        /\ \A i \in RequestCalls :
            i <= k /\ rlLog[i].id = rlLog[k].id /\ rlLog[i].fresh => i <= j

\* The requests of request k's identifier counted in its window, up to k.
InWindow(k) ==
    {j \in RequestCalls : WindowStart(k) <= j /\ j <= k /\ rlLog[j].id = rlLog[k].id}

\* The latest call is a request, answered as rlLast says.
LatestIsRequest ==
    /\ rlLog # <<>>
    /\ rlLog[Len(rlLog)].op = "request"
    /\ rlLast.op = "request"

\* C14: of the requests of an identifier counted in one window, the first
\* maxRequests are passed on (next is called) and every further one is
\* rejected, and a rejected request is answered 429.
C14_LimitPerWindow ==
    /\ \A k \in RequestCalls :
        rlLog[k].next <=> Cardinality(InWindow(k)) <= maxRequests
    /\ LatestIsRequest =>
        /\ rlLast.next = rlLog[Len(rlLog)].next
        /\ rlLast.next <=> rlLast.status # 429

\* An identifier made maxRequests + 2 requests in one window: the first
\* maxRequests went through and the last two were answered 429.
C14_Witness ==
    /\ LatestIsRequest
    /\ rlLast.status = 429
    /\ Cardinality(InWindow(Len(rlLog))) = maxRequests + 2
    /\ Len(rlLog) = maxRequests + 2

\* A step that handles one request, and the identifier it was counted for.
RequestStep ==
    /\ Len(rlLog') = Len(rlLog) + 1
    /\ rlLog'[Len(rlLog')].op = "request"

StepId == rlLog'[Len(rlLog')].id

\* C15: a request that arrives when now >= windowResetAt, now = windowResetAt
\* included, starts a new window (count 1 after the increment, windowResetAt
\* = now + windowSize) and is allowed; a request before windowResetAt adds
\* one to the count and leaves windowResetAt.
C15_NewWindowAtResetAt ==
    [][RequestStep /\ StepId \in DOMAIN limiterRequests =>
        LET before == limiterRequests[StepId]
            after == limiterRequests'[StepId] IN
        IF rlNow >= before.resetAt
        THEN /\ after.count = 1
             /\ after.resetAt = rlNow + windowMs
             /\ rlLast'.next
        ELSE /\ after.count = before.count + 1
             /\ after.resetAt = before.resetAt]_vars

\* The requests identifier made, by the history, since its window was opened.
OwnRequests(identifier) ==
    LET mine == {k \in RequestCalls : rlLog[k].id = identifier} IN
    IF mine = {} THEN 0
    ELSE Cardinality(InWindow(CHOOSE k \in mine : \A j \in mine : j <= k))

\* C16: a request changes the window of its own identifier only, and the
\* count of every window is the number of requests its own identifier made
\* since the window was opened, whatever the other identifiers did: each
\* identifier is decided on its own requests alone.
C16_SeparateBudgets ==
    /\ [][RequestStep =>
            \A j \in DOMAIN limiterRequests \cup DOMAIN limiterRequests' :
                j # StepId =>
                    /\ j \in DOMAIN limiterRequests
                    /\ j \in DOMAIN limiterRequests'
                    /\ limiterRequests'[j] = limiterRequests[j]]_vars
    /\ [](\A j \in DOMAIN limiterRequests :
            limiterRequests[j].count = OwnRequests(j))
    /\ [](\A k \in RequestCalls :
            rlLog[k].next <=> Cardinality(InWindow(k)) <= maxRequests)

\* One identifier is over its limit, and the first request of the other one
\* has just been allowed.
C16_Witness ==
    /\ LatestIsRequest
    /\ rlLast.next
    /\ \E j \in DOMAIN limiterRequests :
        /\ j # rlLog[Len(rlLog)].id
        /\ limiterRequests[j].count > maxRequests
        /\ ~(limiterRequests[j].resetAt < rlNow)
    /\ limiterRequests[rlLog[Len(rlLog)].id].count = 1

\* The number a string of decimal digits stands for.
DigitValue(c) ==
    CHOOSE n \in 0..9 :
        <<"0", "1", "2", "3", "4", "5", "6", "7", "8", "9">>[n + 1] = c

RECURSIVE ParseInt(_)
ParseInt(str) ==
    IF Len(str) = 1 THEN DigitValue(str[1])
    ELSE 10 * ParseInt(SubSeq(str, 1, Len(str) - 1)) + DigitValue(str[Len(str)])

\* C17: a rejected request is answered 429 with retryAfter the least number
\* of whole seconds that reaches windowResetAt, between 0 and the window
\* size, the Retry-After header is that number in decimal, and the window of
\* the request was there before with the same windowResetAt.
C17_RetryAfter ==
    [][RequestStep /\ ~rlLast'.next =>
        LET remaining == limiterRequests'[StepId].resetAt - rlNow
            retryAfter == rlLast'.retryAfter IN
        /\ rlLast'.status = 429
        /\ retryAfter * UnitsPerSecond >= remaining
        /\ (retryAfter - 1) * UnitsPerSecond < remaining
        /\ 0 <= retryAfter /\ retryAfter <= WindowSeconds
        /\ rlLast'.retryAfterHeader # NoHeader
        /\ ParseInt(rlLast'.retryAfterHeader) = retryAfter
        /\ StepId \in DOMAIN limiterRequests
        /\ limiterRequests'[StepId].resetAt = limiterRequests[StepId].resetAt]_vars

\* A request was rejected half a second before windowResetAt: retryAfter is
\* 1, the half second rounded up.
C17_Witness ==
    /\ LatestIsRequest
    /\ rlLast.status = 429
    /\ rlLog[Len(rlLog)].at = rlNow
    /\ limiterRequests[rlLog[Len(rlLog)].id].resetAt - rlNow = 1
    /\ rlLast.retryAfter = 1
    /\ rlLast.retryAfterHeader = <<"1">>

\* The requests of identifier that were allowed at a time in from..to.
AllowedIn(identifier, from, to) ==
    {k \in RequestCalls :
        /\ rlLog[k].id = identifier /\ rlLog[k].next
        /\ from <= rlLog[k].at /\ rlLog[k].at <= to}

\* C18 as stated: in every interval of length windowSize at most maxRequests
\* requests of an identifier are allowed (looked at in the runs without a
\* call of reset, which would void the bound on its own).
C18_RollingWindow ==
    (\A k \in 1..Len(rlLog) : rlLog[k].op # "reset") =>
        \A identifier \in Addresses, t \in 0..MaxLimiterTime :
            Cardinality(AllowedIn(identifier, t, t + windowMs - 1)) <= maxRequests

\* C18, amended: the windows are fixed, not rolling: at most maxRequests
\* requests of an identifier are allowed in one window, from the request that
\* opens it until windowResetAt, and as long as reset is not called an
\* interval of length windowSize, which can meet two windows, holds at most
\* 2 * maxRequests allowed requests of an identifier.
C18_FixedWindow ==
    /\ \A k \in RequestCalls :
        Cardinality({j \in InWindow(k) : rlLog[j].next}) <= maxRequests
    /\ \A k \in RequestCalls :
        rlLog[k].at <= rlLog[WindowStart(k)].at + windowMs
    /\ (\A k \in 1..Len(rlLog) : rlLog[k].op # "reset") =>
        \A identifier \in Addresses, t \in 0..MaxLimiterTime :
            Cardinality(AllowedIn(identifier, t, t + windowMs)) <= 2 * maxRequests

\* Without any reset, an identifier had maxRequests + 1 requests allowed
\* within less than a window size, across the end of its first window.
C18_Witness ==
    /\ \A k \in 1..Len(rlLog) : rlLog[k].op # "reset"
    /\ \E identifier \in Addresses, t \in 0..MaxLimiterTime :
        Cardinality(AllowedIn(identifier, t, t + windowMs - 1)) > maxRequests

\* identifier is the first comma-separated entry of header, trimmed: header
\* is white space, identifier, white space, and then ends or goes on with a
\* comma; identifier holds no comma and neither starts nor ends with white
\* space.
IsFirstHop(identifier, header) ==
    /\ \A i \in 1..Len(identifier) : identifier[i] # ","
    /\ identifier # <<>> => identifier[1] # " " /\ identifier[Len(identifier)] # " "
    /\ \E lead, trail \in 0..Len(header) :
        LET end == lead + Len(identifier) + trail IN
        /\ end <= Len(header)
        /\ \A i \in 1..lead : header[i] = " "
        /\ SubSeq(header, lead + 1, lead + Len(identifier)) = identifier
        /\ \A i \in (lead + Len(identifier) + 1)..end : header[i] = " "
        /\ end = Len(header) \/ header[end + 1] = ","

\* The transport address of a request: req.ip, else the socket's address,
\* else 'unknown'.
TransportAddress(req) ==
    IF req.ip # NoValue THEN req.ip
    ELSE IF req.remoteAddress # NoValue THEN req.remoteAddress
    ELSE Unknown

\* C19: a request is counted for the first entry of its X-Forwarded-For
\* header, trimmed, when it carries the header (with a value: an empty header
\* counts as none), and for its transport address otherwise; all requests
\* counted for one identifier draw on one budget, whatever their addresses,
\* and requests with different first entries on different ones.
C19_Identifier ==
    /\ [][RequestStep =>
            LET req == rlLast'.req IN
            /\ req.forwarded \notin {NoValue, <<>>} =>
                    IsFirstHop(StepId, req.forwarded)
            /\ req.forwarded \in {NoValue, <<>>} => StepId = TransportAddress(req)
            /\ StepId \in DOMAIN limiterRequests'
            /\ limiterRequests'[StepId].count =
                    (IF StepId \in DOMAIN limiterRequests
                     THEN limiterRequests[StepId].count ELSE 0) + 1
            /\ \A j \in DOMAIN limiterRequests' :
                    j # StepId => /\ j \in DOMAIN limiterRequests
                                  /\ limiterRequests'[j] = limiterRequests[j]
            /\ rlLast'.next <=> limiterRequests'[StepId].count <= maxRequests]_vars
    /\ [](\A j \in DOMAIN limiterRequests :
            limiterRequests[j].count =
                Cardinality({k \in RequestCalls : rlLog[k].id = j}))

\* A request from address a with first hop b was rejected because the budget
\* of b was used up, while the budget of address a itself has one request.
C19_Witness ==
    /\ LatestIsRequest
    /\ rlLast.req.forwarded = <<" ", "b", " ", ",", "a">>
    /\ rlLast.req.ip = <<"a">>
    /\ rlLast.status = 429
    /\ rlLog[Len(rlLog)].id = <<"b">>
    /\ <<"a">> \in DOMAIN limiterRequests
    /\ limiterRequests[<<"a">>].count = 1

\* A step that calls reset, and its argument.
ResetStep ==
    /\ Len(rlLog') = Len(rlLog) + 1
    /\ rlLog'[Len(rlLog')].op = "reset"

\* C20: reset(id) deletes the window of id and leaves every other window as
\* it was; reset() deletes every window; and the next request of an
\* identifier whose window a reset deleted is allowed, in a new window.
C20_Reset ==
    /\ [][ResetStep =>
            IF StepId # NoValue
            THEN /\ StepId \notin DOMAIN limiterRequests'
                 /\ \A j \in DOMAIN limiterRequests :
                        j # StepId => /\ j \in DOMAIN limiterRequests'
                                      /\ limiterRequests'[j] = limiterRequests[j]
                 /\ DOMAIN limiterRequests' \subseteq DOMAIN limiterRequests
            ELSE limiterRequests' = EmptyMap]_vars
    /\ [](\A k \in RequestCalls :
            (\E r \in 1..(k - 1) :
                /\ rlLog[r].op = "reset"
                /\ rlLog[r].id \in {rlLog[k].id, NoValue}
                /\ \A i \in (r + 1)..(k - 1) :
                        ~(rlLog[i].op = "request" /\ rlLog[i].id = rlLog[k].id))
            => rlLog[k].next /\ rlLog[k].fresh)

\* An identifier that had used up its budget was reset, and its next request
\* has been allowed as the first of a new window.
C20_Witness ==
    /\ LatestIsRequest
    /\ rlLast.next
    /\ Len(rlLog) = maxRequests + 2
    /\ \A k \in 1..maxRequests :
        rlLog[k].op = "request" /\ rlLog[k].id = rlLog[Len(rlLog)].id
    /\ rlLog[maxRequests + 1].op = "reset"
    /\ rlLog[maxRequests + 1].id = rlLog[Len(rlLog)].id
    /\ rlLog[Len(rlLog)].at = rlLog[1].at
    /\ limiterRequests[rlLog[Len(rlLog)].id].count = 1

\* ------------------------------------------------- admission, continued

CleanupOp == "cleanupExpiredTokens"

\* C27: while the interval of the constructor is armed, every stored token
\* whose expiresAt has passed is deleted in the end, accessed or not; and a
\* run of the cleanup deletes exactly the tokens whose expiresAt has passed
\* and leaves every other token as it was.
C27_SweepExpired ==
    /\ \A t \in Uuids :
        (t \in DOMAIN tokens /\ tokens[t].expiresAt < now)
            ~> (t \notin DOMAIN tokens \/ ~cleanupInterval)
    /\ [][last'.op = CleanupOp =>
            /\ DOMAIN tokens' \subseteq DOMAIN tokens
            /\ \A t \in DOMAIN tokens :
                IF tokens[t].expiresAt < now
                THEN t \notin DOMAIN tokens'
                ELSE t \in DOMAIN tokens' /\ tokens'[t] = tokens[t]]_vars

\* The cleanup has just deleted an expired token, no call having touched it,
\* and kept a token that has not expired.
C27_Witness ==
    /\ last.op = CleanupOp
    /\ last.value >= 1
    /\ cleanupInterval
    /\ \E t \in DOMAIN tokens : ~(tokens[t].expiresAt < now)
    /\ \E t \in DOMAIN issued : t \notin DOMAIN tokens /\ issued[t].expiresAt < now

RegenerateOp == "regenerateQRCode"

\* The QR tokens of a store.
QrTokens(store) == {t \in DOMAIN store : store[t].type = "qr"}

\* C28: after regenerateQRCode the store holds exactly one QR token, the new
\* one, which can be exchanged; every QR token issued before fails exchange;
\* and every session token that was valid is still in the store, unchanged
\* and valid.
C28_Regenerate ==
    [][last'.op = RegenerateOp /\ nextUuid' = nextUuid + 1 =>
        LET new == last'.value IN
        /\ new = nextUuid /\ new \notin DOMAIN issued
        /\ QrTokens(tokens') = {new}
        /\ validateQRTokenAndIssueSession(tokens', new, nextUuid', now').result # Null
        /\ \A q \in DOMAIN issued :
            issued[q].type = "qr" =>
                /\ q \notin DOMAIN tokens'
                /\ validateQRTokenAndIssueSession(tokens', q, nextUuid', now').result = Null
        /\ \A t \in DOMAIN tokens :
            tokens[t].type = "session" /\ validateSessionToken(tokens, t, now).result =>
                /\ t \in DOMAIN tokens'
                /\ tokens'[t] = tokens[t]
                /\ validateSessionToken(tokens', t, now').result]_vars

\* regenerateQRCode has just replaced an unexchanged QR token by a new one
\* while the store held a valid session, which it still holds.
C28_Witness ==
    /\ last.op = RegenerateOp
    /\ \E q \in DOMAIN issued :
        /\ issued[q].type = "qr"
        /\ q # last.value
        /\ SessionsFrom(q) = {}
        /\ ~(issued[q].expiresAt < now)
        /\ q \notin DOMAIN tokens
    /\ \E t \in DOMAIN tokens :
        tokens[t].type = "session" /\ validateSessionToken(tokens, t, now).result
    /\ QrTokens(tokens) = {last.value}

\* C29: a QR token issued by POST /api/auth/qr-token is exchanged with 200
\* by the first POST /api/auth/session that presents it within its lifetime,
\* whether or not GET /api/auth/qr-code was called in between.
C29_QrCodeKeepsToken ==
    \A r \in RequestIds :
        LET q == requests[r].qrToken IN
        /\ requests[r].state = "answered"
        /\ q \in DOMAIN issued
        /\ issued[q].by = "generateQRToken"
        => \/ requests[r].status = 200
           \/ \E o \in RequestIds :
                /\ o # r
                /\ requests[o].state = "answered"
                /\ requests[o].qrToken = q
                /\ requests[o].status = 200

\* A call of shutdown() has been made.
Signalled == \E i \in SignalIds : process.shutdowns[i] # "none"

\* C21 (as stated): once a shutdown signal is handled the process exits,
\* whatever the peers do; and when it has exited the token store is empty,
\* the sweep timer is cancelled and no admitted connection is open.
C21_ExitsClean ==
    /\ Signalled ~> process.exited
    /\ [](process.exited =>
            /\ DOMAIN tokens = {}
            /\ ~cleanupInterval
            /\ Connected = {})

\* C21 (amended): once a shutdown signal is handled the process exits,
\* whatever the peers do; and when it has exited every token that was in the
\* store when shutdownServer ran is gone, the sweep timer is cancelled and no
\* admitted connection is open.
C21_Shutdown ==
    /\ Signalled ~> process.exited
    /\ [](process.exited =>
            /\ process.invalidated \cap DOMAIN tokens = {}
            /\ ~cleanupInterval
            /\ Connected = {})

\* The process has exited on the forced-close timer while a peer kept its
\* connection open; tokens were invalidated and a realtime client was
\* disconnected.
C21_Witness ==
    /\ process.exited
    /\ process.code = 1
    /\ connections > 0
    /\ process.invalidated # {}
    /\ \E s \in SocketIds : sockets[s].state = "disconnected"

\* The invocations of the operation a call of withRetry has made.
Invocations ==
    IF retry.state = "calling" THEN Len(retry.outcomes) + 1
    ELSE Len(retry.outcomes)

\* The k-th invocation failed with an error that is classified retryable.
FailedRetryable(k) ==
    /\ retry.outcomes[k] # Fulfilled
    /\ classify(retry.outcomes[k]).retryable

Settled == retry.state \in {"returned", "thrown"}

\* C24: withRetry invokes the operation at most maxRetries + 1 times and
\* terminates; it returns at the first success; an error that is classified
\* not retryable, as every Authentication and Validation error is, ends the
\* call at once with no wait after it; after the k-th failure with a
\* retryable error it waits baseDelay * 2^(k-1) plus at most 30% of that, and
\* the failure of invocation maxRetries + 1 is thrown.
C24_WithRetry ==
    /\ [](/\ Invocations <= retry.maxRetries + 1
          /\ \A k \in 1..Len(retry.outcomes) :
                /\ k < Invocations => FailedRetryable(k)
                /\ retry.outcomes[k] # Fulfilled
                    /\ classify(retry.outcomes[k]).type
                            \in {"AUTHENTICATION", "VALIDATION"}
                    => ~classify(retry.outcomes[k]).retryable
                /\ ~FailedRetryable(k) =>
                    /\ Settled
                    /\ k = Len(retry.outcomes)
                    /\ Len(retry.waits) = k - 1
                    /\ retry.state = "returned" <=> retry.outcomes[k] = Fulfilled
                    /\ retry.state = "thrown" =>
                            retry.thrown = classify(retry.outcomes[k])
          /\ retry.state = "thrown" =>
                /\ retry.outcomes # <<>>
                /\ LET n == Len(retry.outcomes) IN
                   FailedRetryable(n) =>
                        /\ n = retry.maxRetries + 1
                        /\ Len(retry.waits) = n - 1
                        /\ retry.thrown = classify(retry.outcomes[n])
          /\ retry.state = "returned" =>
                /\ retry.outcomes # <<>>
                /\ retry.outcomes[Len(retry.outcomes)] = Fulfilled
          /\ retry.state = "sleeping" => Len(retry.waits) = Len(retry.outcomes)
          /\ \A k \in 1..Len(retry.waits) :
                /\ FailedRetryable(k)
                /\ retry.waits[k].delay = retry.baseDelay * (2 ^ (k - 1))
                /\ retry.waits[k].jitter >= 0
                /\ 10 * retry.waits[k].jitter <= 3 * retry.waits[k].delay)
    /\ (retry.state # "idle") ~> Settled

\* A call that was retried until its last attempt failed, and threw.
C24_Witness ==
    /\ retry.state = "thrown"
    /\ retry.maxRetries = MaxRetries
    /\ Len(retry.outcomes) = MaxRetries + 1
    /\ Len(retry.waits) = MaxRetries
    /\ retry.waits[MaxRetries].jitter > 0
    /\ FailedRetryable(MaxRetries + 1)

C23_ImagesRequiresSession ==
    (call.state = "answered" /\ call.route = ImagesRoute /\ ~call.live) =>
        /\ call.status = 401
        /\ ~call.listed

\* The strings the formatter and the routes write themselves.
SafeStrings ==
    {Lit("Your session has expired. Please scan the QR code again."),
     Lit("Invalid authentication. Please scan the QR code again."),
     Lit("Authentication failed. Please try again."),
     Lit("AWS credentials are invalid. Please check your configuration."),
     Lit("S3 bucket not found or inaccessible. Please check your configuration."),
     Lit("Permission denied. Please check your AWS IAM permissions."),
     Lit("S3 service is temporarily unavailable. Retrying..."),
     Lit("Failed to access S3 storage. Please check your configuration."),
     Lit("File not found. Please check the file path."),
     Lit("Permission denied. Please check file permissions."),
     Lit("Expected a file but found a directory."),
     Lit("File system error. Please try again."),
     Lit("Connection lost. Reconnecting..."),
     Lit("Real-time communication error. Please refresh the page."),
     Lit("Cannot connect to server. Please check if the server is running."),
     Lit("Connection timed out. Please check your network connection."),
     Lit("Server not found. Please check the URL."),
     Lit("Network error. Please check your connection and try again."),
     Lit("An unexpected error occurred. Please try again."),
     Lit("Invalid or expired session token"),
     Lit("File and mimeType are required"),
     Lit("File, mimeType, and articleId are required"),
     Lit("All AWS credentials are required"),
     Lit("Failed to upload image"),
     Lit("Failed to list images"),
     Lit("Failed to save configuration")}

\* The text holds a fragment of the message of the error.
Quotes(text, error) ==
    \E i \in DOMAIN text, j \in DOMAIN error.message :
        text[i] = error.message[j]

\* C25: every text of a response is one of the fixed strings, and none holds
\* a part of the message of the error that caused it.
C25_NoRawText ==
    call.state = "answered" =>
        \A text \in {call.error, call.details} :
            /\ text \in SafeStrings \cup {<<>>}
            /\ ~Quotes(text, call.raw)

\* C26: an upload request is answered after a retryable failure of the
\* storage only when the upload was attempted again, and then with 503.
C26_StorageRetried ==
    (/\ call.state = "answered"
     /\ call.route \in {UploadRoute, UploadMobileRoute}
     /\ call.raw \in CollaboratorErrors
     /\ classify(call.raw).retryable) =>
        /\ call.sends > 1
        /\ call.status = 503

\* C31: every POST /api/articles that is answered 200 and replaces the
\* article list broadcasts an article-list event to the connections admitted
\* at that moment.
C31_PostBroadcasts ==
    articlePost.status = 200 =>
        /\ articleList = articlePost.articles
        /\ articlePost.broadcast
        /\ articlePost.recipients = Connected

\* A socket of the client is connected or on its way to it.
Attempting == \E i \in DOMAIN client.created : client.created[i] # "closed"

\* C32: after an unexpected disconnect the client reconnects on its own with
\* exponential backoff: the timer of an attempt is set to
\* reconnectionDelay * 2^k for the count k of attempts made, timers are set
\* only while fewer than reconnectionAttempts attempts have been made, and
\* while the connection is lost and attempts remain the client goes on
\* trying: an attempt is under way or its timer is pending.
C32_Reconnects ==
    /\ \A k \in DOMAIN client.scheduled :
            /\ client.scheduled[k].count < reconnectionAttempts
            /\ client.scheduled[k].delay =
                    reconnectionDelay * Pow2(client.scheduled[k].count)
    /\ (client.lost /\ client.reconnectCount < reconnectionAttempts) =>
            (Attempting \/ client.timers # {})

\* C40: after disconnect() has been called, and until connect() is called
\* again, no reconnection timer is pending and no connection attempt is
\* made.
C40_DisconnectStops ==
    client.stopped => (client.timers = {} /\ ~Attempting)

\* Task n is waiting in the queue.
Queued(n) ==
    \E i \in DOMAIN uploadQueue.queue : uploadQueue.queue[i].n = n

\* uploadImage has been called with task n.
Started(n) ==
    \E i \in DOMAIN uploadQueue.started : uploadQueue.started[i].n = n

\* Tasks are started in the order in which they were added, and a task
\* waits only behind tasks added before it.
StartedInOrder ==
    /\ \A i, j \in DOMAIN uploadQueue.started :
            i < j => uploadQueue.started[i].n < uploadQueue.started[j].n
    /\ \A i, j \in DOMAIN uploadQueue.queue :
            i < j => uploadQueue.queue[i].n < uploadQueue.queue[j].n
    /\ \A n \in 1..MaxTasks :
            Queued(n) => \A i \in DOMAIN uploadQueue.started :
                            uploadQueue.started[i].n < n

C34_CleanupKeepsDecisions ==
    /\ rlLast = rlPlain.last
    /\ DOMAIN limiterRequests \subseteq DOMAIN rlPlain.requests
    /\ \A identifier \in DOMAIN rlPlain.requests :
            IF identifier \in DOMAIN limiterRequests
            THEN limiterRequests[identifier] = rlPlain.requests[identifier]
            ELSE rlPlain.requests[identifier].resetAt < rlNow

\* The latest request came from a client whose window the cleanup had
\* removed and has been rejected.
C34_Witness ==
    /\ rlLast.op = "request"
    /\ rlLast.status = 429
    /\ getIdentifier(rlLast.req) \in rlPlain.removed

\* ------------------------------------------------ the rate-limited routes

\* The requests the limiter has counted for the followed client.
Counted(limiter) ==
    IF getIdentifier(GatedClient) \in DOMAIN gates[limiter]
    THEN gates[limiter][getIdentifier(GatedClient)].count
    ELSE 0

\* C35: an image-insert broadcast is issued only by a mobile-upload request
\* whose session token passed validateSessionToken during that request and
\* whose upload succeeded; a request answered 429, 401, 400 or 500 causes no
\* broadcast.
C35_BroadcastOnlyAfterUpload ==
    [][/\ emitted' # emitted =>
            /\ call.state = "awaiting" /\ call.route = UploadMobileRoute
            /\ call.checked /\ call.live
            /\ call'.state = "answered" /\ call'.status = 200
            /\ call'.sends = 1
            /\ Len(emitted') = Len(emitted) + 1
       /\ (call'.state = "answered" /\ call'.status \in {429, 401, 400, 500}) =>
            emitted' = emitted]_vars

\* A mobile upload of a paired client has succeeded and was broadcast, after
\* the limiter had refused nothing.
C35_Witness ==
    /\ call.state = "answered" /\ call.route = UploadMobileRoute
    /\ call.status = 200 /\ call.broadcast /\ call.live
    /\ Len(emitted) = 1 /\ gates.broadcasts = 1

\* C38: POST /api/auth/qr-token and GET /api/auth/qr-code draw on one shared
\* per-identifier budget of 5 requests per minute, POST /api/images/upload
\* and POST /api/images/upload-mobile on one shared budget of 10: the
\* requests of a client to the two routes of a pair are counted together,
\* the one that passes leaves what its limit leaves after all of them, and a
\* request is refused exactly when the pair has had more than its limit.
C38_SharedBudgets ==
    LET qr == gates.made[QrTokenRoute] + gates.made[QrCodeRoute]
        upload == gates.made[UploadRoute] + gates.made[UploadMobileRoute]
    IN  /\ Counted("qrCodeLimiter") = qr
        /\ Counted("imageUploadLimiter") = upload
        /\ qr > 0 =>
            /\ gates.passed.next = (qr <= 5)
            /\ gates.passed.next => gates.passed.remaining = toString(5 - qr)
            /\ ~gates.passed.next => gates.passed.status = 429
        /\ upload > 0 =>
            /\ gates.passed.next = (upload <= 10)
            /\ gates.passed.next =>
                    gates.passed.remaining = toString(10 - upload)
            /\ ~gates.passed.next => gates.passed.status = 429

\* The sixth request of the minute to the QR routes, both of which were
\* called, is refused.
C38_Witness ==
    /\ gates.made[QrTokenRoute] >= 2 /\ gates.made[QrCodeRoute] >= 2
    /\ gates.made[QrTokenRoute] + gates.made[QrCodeRoute] = 6
    /\ gates.passed.status = 429 /\ call.status = 429

\* C39: on the upload routes the rate-limit gate runs before session
\* validation: every request, whatever its session token, consumes one unit
\* of the budget of its identifier, and a request over the limit is answered
\* 429 and never reaches the session check.
C39_GateBeforeSession ==
    [][\A route \in {UploadRoute, UploadMobileRoute} :
        gates'.made[route] = gates.made[route] + 1 =>
            /\ Counted("imageUploadLimiter")' = Counted("imageUploadLimiter") + 1
            /\ Counted("imageUploadLimiter")' > 10 =>
                    /\ call'.state = "answered" /\ call'.status = 429
                    /\ ~call'.checked
                    /\ tokens' = tokens /\ last' = last
            /\ Counted("imageUploadLimiter")' <= 10 =>
                    /\ call'.status # 429
                    /\ call'.checked = call'.presented]_vars

\* The eleventh upload request of the minute carried a live session token and
\* was refused, after requests without a session had been answered 401.
C39_Witness ==
    /\ call.route \in {UploadRoute, UploadMobileRoute}
    /\ call.status = 429 /\ call.presented /\ call.live /\ ~call.checked
    /\ Counted("imageUploadLimiter") = 11
    /\ gates.broadcasts = 0

\* ------------------------------------------------- the minting of sessions

\* The session tokens a store holds.
Sessions(store) == {s \in DOMAIN store : store[s].type = "session"}

\* The session tokens ever minted.
Minted == Sessions(issued)

\* C37: session tokens are created only by a successful exchange: a step
\* that adds a session token to the store is a call of
\* validateQRTokenAndIssueSession that returns it and removes the live QR
\* token it was called with, which had yielded no session before; every
\* session of the store was minted so; and the sessions ever minted are as
\* many as the QR tokens consumed by exchange, one for each.
C37_SessionsOnlyByExchange ==
    [][LET added == Sessions(tokens') \ Sessions(tokens) IN
       /\ added # {} =>
            /\ last'.op = ExchangeOp /\ last'.ok
            /\ added = {last'.value}
            /\ last'.arg \in DOMAIN tokens
            /\ tokens[last'.arg].type = "qr"
            /\ ~Expired(tokens[last'.arg], now)
            /\ last'.arg \notin DOMAIN tokens'
            /\ SessionsFrom(last'.arg) = {}
            /\ Cardinality(Minted') = Cardinality(Minted) + 1
       /\ added = {} => Minted' = Minted
       /\ Sessions(tokens') \subseteq Minted'
       /\ Cardinality(Minted') =
            Cardinality({issued'[s].from : s \in Minted'})
       /\ \A s \in Minted' :
            /\ issued'[s].from \in DOMAIN issued'
            /\ issued'[issued'[s].from].type = "qr"
            /\ issued'[s].from \notin DOMAIN tokens']_vars

\* Two pairings have been made, each from its own QR token, and both
\* sessions are in the store.
C37_Witness ==
    /\ Cardinality(Minted) = 2
    /\ Cardinality({issued[s].from : s \in Minted}) = 2
    /\ Minted \subseteq DOMAIN tokens
    /\ last.op = ExchangeOp /\ last.ok

\* ------------------------------------- admission and the life of a token

\* The connection was admitted with a session token that has since expired
\* or been deleted.
Outlived(s) ==
    /\ sockets[s].state = "connected"
    /\ sockets[s].authenticated = "true"
    /\ ~LiveSession(tokens, sockets[s].dataToken, now)

\* C36: admission is decided once, at handshake: a connection that was
\* admitted leaves the connected set only when it disconnects or when the hub
\* is closed by shutdownServer; a step in which time passes or tokens are
\* deleted leaves it as it is, with what it carries; and every broadcast
\* issued while it is connected is written to it and can be received,
\* whether or not its session token is still valid.
C36_AdmittedOnce ==
    [][\A s \in SocketIds :
        sockets[s].state = "connected" =>
            /\ sockets'[s].state # "connected" =>
                    /\ sockets'[s].state = "disconnected"
                    /\ \/ process'.shutdowns # process.shutdowns
                       \/ /\ UNCHANGED <<authVars, emitted, process>>
                          /\ \A o \in SocketIds \ {s} :
                                sockets'[o] = sockets[o]
            /\ (now' # now \/ tokens' # tokens) /\ process' = process =>
                    /\ sockets'[s] = sockets[s]
                    /\ wire'[s] = wire[s] /\ inbox'[s] = inbox[s]
            /\ emitted' # emitted =>
                    /\ sockets'[s] = sockets[s]
                    /\ s \in emitted'[Len(emitted')]
                    /\ wire'[s] = Append(wire[s], Len(emitted'))
            /\ (Outlived(s) /\ wire[s] # <<>> /\ process' = process) =>
                    ENABLED Deliver(s)]_vars

\* A connection admitted with a session token has outlived the token, which
\* was deleted by invalidateAllTokens; it has received one broadcast and
\* carries another.
C36_Witness ==
    \E s \in SocketIds :
        /\ Outlived(s)
        /\ sockets[s].dataToken \notin DOMAIN tokens
        /\ last.op = "invalidateAllTokens"
        /\ inbox[s] = <<1>> /\ wire[s] = <<2>>

================================================================
